---- MODULE Spec2Model ----
(***************************************************************************)
(* Model of scripts/bagakit_skill_maker.py, the `validate` command.        *)
(*                                                                         *)
(* A bundle on disk is the input.  Text is modelled as a sequence of       *)
(* lines, a line as a sequence of atoms (the line is its atoms joined by   *)
(* single spaces).  Every substring or regular-expression test of the      *)
(* program is modelled by a table that lists the atoms of the vocabulary   *)
(* for which the program's own test is true.                               *)
(***************************************************************************)
EXTENDS Integers, Sequences, FiniteSets, TLC

VARIABLES
    bundle,     \* the bundle on disk: never written by validate
    pc,         \* position of cmd_validate
    errors,     \* cmd_validate's `errors` list
    warnings,   \* cmd_validate's `warnings` list
    skill_text, \* lines of SKILL.md once read
    name,       \* fm.get("name", "")
    include,    \* the `include` list after the type check
    out,        \* what was printed so far, in order: stdout and stderr lines
    exit,       \* exit status of the process, -1 while running
    ran,        \* the rule groups evaluated so far in this run
    probed,     \* the paths whose existence on disk this run has asked for
    run,        \* 1 for the first invocation, 2 for the repeated one
    prev        \* what the previous invocation printed and returned

vars == <<bundle, pc, errors, warnings, skill_text, name, include, out, exit, ran, probed,
          run, prev>>

(***************************************************************************)
(* Tables of the vocabulary.  Each set holds the atoms for which the test   *)
(* of the program named beside it is true of the atom's text.              *)
(***************************************************************************)
Atoms ==
    {"---", "name:", "bagakit-foo", "description:",
     "Use when validating skill bundles before a release.", "# Foo Skill",
     "Standalone-first design;", "optional contract exchange.", "## When to Use", "-",
     "validating a bundle", "preparing a release", "## When NOT to Use", "editing prose",
     "publishing", "## Workflow", "check then report", "## Fallback Path", "ask the user",
     "## Output Routes and Default Mode", "default:", "local action handoff with type note",
     "optional adapter;", "memory summary", "## Archive Gate",
     "archive destination path with action and memory;", "completion gate", "[[BAGAKIT]]",
     "foo:", "status=done;", "next=idle", "must", "run", "first", "invoke", "bagakit-bar",
     "is", "related", "optional:", "provide", "schema", "requires", "bagakit-series",
     "profile", "bash", "/skills/other-tool/run.sh", "sh", "/skills/bagakit-foo/a.sh",
     "/skills/other-tool/b.sh", "/skills/bagakit-bar/run.sh", "see",
     "/home/alice/project/file.md", "./relative/file.md", "./tmp/build/out.md",
     "C:\\Users\\bob\\file.txt", "and",
     "/tmp/x/y", "driver_openspec:", "yes", "avoid", "driver_longrun", ".bagakit/run.sh",
     "Bagakit-Bar", "MUST", "Bagakit-Foo", "# Appendix", "## Notes", "### Workflow", "*",
     "starred item", "plain words", "author:", "someone", "machine-readable", "frontmatter",
     "toml", "driver_meta", "only when no", "driver is detected", "openspec", "route",
     "capability", "rule", "## Output Contract", "## Completion Handoff", "## when not to use",
     "## When No Clear Fit (fallback)", "no adapter;", "no memory", "standalone-only;", "none",
     "foo", "a", "Foo", "-foo", "foo-", "foo_bar", "bagakit-Foo", "a--b", "\"bagakit-foo\"",
     "aaaaaaaaaaaaaaaaaaaaaaaaaaaaaaaaaaaaaaaaaaaaaaaaaaaaaaaaaaaaaaaa",
     "aaaaaaaaaaaaaaaaaaaaaaaaaaaaaaaaaaaaaaaaaaaaaaaaaaaaaaaaaaaaaaaaa",
     "aaaaaaaaaaaaaaaaaaaaaaaaaaaaaaaaaaaaaaaaaaaaaaaaaaaaaaaaaaaaaaa-", "TODO: replace me",
     "Validates bundles.", "Use when needed.", "\"Use when needed.\""}

OPTIONAL_HINTS_atoms ==
    {"optional contract exchange.", "optional adapter;", "optional:", "schema",
     "## Output Contract"}

COUPLING_HINTS_atoms ==
    {"Use when validating skill bundles before a release.", "must", "run", "invoke",
     "requires", "bash", "/skills/other-tool/run.sh", "/skills/bagakit-bar/run.sh",
     "driver_longrun", ".bagakit/run.sh", "MUST"}

ANTI_PATTERN_HINTS_atoms ==
    {"avoid"}

ACTION_HINTS_atoms ==
    {"local action handoff with type note", "archive destination path with action and memory;"}

MEMORY_HINTS_atoms ==
    {"memory summary", "archive destination path with action and memory;", "no memory"}

ARCHIVE_HINTS_atoms ==
    {"Use when validating skill bundles before a release.", "validating a bundle",
     "## Fallback Path", "## Archive Gate", "archive destination path with action and memory;",
     "next=idle", "provide", "avoid", "Validates bundles."}

ADAPTER_HINTS_atoms ==
    {"## Output Routes and Default Mode", "optional adapter;", "route", "no adapter;"}

GENERIC_ADAPTER_HINTS_atoms ==
    {"capability"}

CONCRETE_ADAPTER_HINTS_atoms ==
    {"driver_openspec:", "openspec"}

NO_ADAPTER_HINTS_atoms ==
    {"no adapter;", "standalone-only;", "none"}

MEMORY_NONE_HINTS_atoms ==
    {"no memory", "none"}

ARCHETYPE_HINTS_atoms ==
    {"local action handoff with type note"}

COMPLETION_HINTS_atoms ==
    {"## Archive Gate", "completion gate", "## Completion Handoff"}

CONTRACT_KEYS_atoms ==
    {"optional contract exchange.", "schema", "## Output Contract"}

HasOptional_atoms ==
    {"optional contract exchange.", "optional adapter;", "optional:"}

HasOptionalZh_atoms ==
    {"optional contract exchange.", "optional adapter;", "optional:"}

HasStandalone_atoms ==
    {"Standalone-first design;", "standalone-only;"}

HasDefault_atoms ==
    {"## Output Routes and Default Mode", "default:"}

HasOnlyWhenNo_atoms ==
    {"only when no"}

HasDetected_atoms ==
    {"driver is detected"}

HasDriverMeta_atoms ==
    {"driver_meta"}

HasDriver_atoms ==
    {"driver_openspec:", "driver_longrun", "driver_meta", "driver is detected"}

HasMachineReadable_atoms ==
    {"machine-readable"}

HasFrontmatter_atoms ==
    {"frontmatter"}

HasToml_atoms ==
    {"toml"}

HasWorkflowHeading_atoms ==
    {"## Workflow", "### Workflow"}

HasColon_atoms ==
    {"name:", "description:", "default:", "foo:", "optional:", "C:\\Users\\bob\\file.txt",
     "driver_openspec:", "author:", "TODO: replace me"}

ExecVerb_atoms ==
    {"bash", "/skills/other-tool/run.sh", "sh", "/skills/bagakit-foo/a.sh",
     "/skills/other-tool/b.sh", "/skills/bagakit-bar/run.sh", ".bagakit/run.sh"}

AbsPath_atoms ==
    {"/home/alice/project/file.md", "./tmp/build/out.md", "C:\\Users\\bob\\file.txt",
     "/tmp/x/y"}

EndsSh_atoms ==
    {"bash", "/skills/other-tool/run.sh", "sh", "/skills/bagakit-foo/a.sh",
     "/skills/other-tool/b.sh", "/skills/bagakit-bar/run.sh", ".bagakit/run.sh"}

EndsBash_atoms ==
    {"bash"}

StartsDotBagakit_atoms ==
    {".bagakit/run.sh"}

H2Start_atoms ==
    {"## When to Use", "## When NOT to Use", "## Workflow", "## Fallback Path",
     "## Output Routes and Default Mode", "## Archive Gate", "## Notes", "## Output Contract",
     "## Completion Handoff", "## when not to use", "## When No Clear Fit (fallback)"}

HeadingWhenToUse ==
    {"## When to Use"}

HeadingWhenNotToUse ==
    {"## When NOT to Use", "## when not to use"}

HeadingFallback ==
    {"## Fallback Path", "## When No Clear Fit (fallback)"}

HeadingOutput ==
    {"## Output Routes and Default Mode", "## Output Contract"}

HeadingArchive ==
    {"## Archive Gate", "## Completion Handoff"}

\* re.findall(r"\bbagakit-[a-z0-9-]+\b", lower), atom by atom
TokenTable ==
    ("bagakit-foo" :> <<"bagakit-foo">>
     @@ "bagakit-bar" :> <<"bagakit-bar">>
     @@ "bagakit-series" :> <<"bagakit-series">>
     @@ "/skills/bagakit-foo/a.sh" :> <<"bagakit-foo">>
     @@ "/skills/bagakit-bar/run.sh" :> <<"bagakit-bar">>
     @@ "Bagakit-Bar" :> <<"bagakit-bar">>
     @@ "Bagakit-Foo" :> <<"bagakit-foo">>
     @@ "bagakit-Foo" :> <<"bagakit-foo">>
     @@ "\"bagakit-foo\"" :> <<"bagakit-foo">>)

\* group 1 of the first r"/skills/([a-z0-9-]+)" in the lower-cased atom
SkillTargetTable ==
    ("/skills/other-tool/run.sh" :> "other-tool"
     @@ "/skills/bagakit-foo/a.sh" :> "bagakit-foo"
     @@ "/skills/other-tool/b.sh" :> "other-tool"
     @@ "/skills/bagakit-bar/run.sh" :> "bagakit-bar")

\* the DISCOURAGED_ADAPTER_KEYS found in the lower-cased atom, in the tuple's order
DiscouragedTable ==
    ("driver_openspec:" :> <<"driver_openspec">>
     @@ "driver_longrun" :> <<"driver_longrun">>)

\* first atom of a `key: value` line -> key.strip()
KeyTable ==
    ("name:" :> "name"
     @@ "description:" :> "description"
     @@ "default:" :> "default"
     @@ "foo:" :> "foo"
     @@ "optional:" :> "optional"
     @@ "driver_openspec:" :> "driver_openspec"
     @@ "author:" :> "author")

\* value.strip().strip('"').strip("'") of a header value
StripTable ==
    ("\"bagakit-foo\"" :> "bagakit-foo"
     @@ "\"Use when needed.\"" :> "Use when needed.")

\* the characters of the strings that can be a header name or a cross-skill token
CharTable ==
    ("/" :> <<"/">>
     @@ "a" :> <<"a">>
     @@ ".." :> <<".",".">>
     @@ ".MD" :> <<".","M","D">>
     @@ ".js" :> <<".","j","s">>
     @@ ".md" :> <<".","m","d">>
     @@ ".py" :> <<".","p","y">>
     @@ ".sh" :> <<".","s","h">>
     @@ ".ts" :> <<".","t","s">>
     @@ "Foo" :> <<"F","o","o">>
     @@ "foo" :> <<"f","o","o">>
     @@ "old" :> <<"o","l","d">>
     @@ "tmp" :> <<"t","m","p">>
     @@ "tpl" :> <<"t","p","l">>
     @@ "-foo" :> <<"-","f","o","o">>
     @@ ".bin" :> <<".","b","i","n">>
     @@ ".exe" :> <<".","e","x","e">>
     @@ ".txt" :> <<".","t","x","t">>
     @@ ".yml" :> <<".","y","m","l">>
     @@ "a--b" :> <<"a","-","-","b">>
     @@ "data" :> <<"d","a","t","a">>
     @@ "foo-" :> <<"f","o","o","-">>
     @@ "misc" :> <<"m","i","s","c">>
     @@ "name" :> <<"n","a","m","e">>
     @@ "shim" :> <<"s","h","i","m">>
     @@ "temp" :> <<"t","e","m","p">>
     @@ "test" :> <<"t","e","s","t">>
     @@ "tool" :> <<"t","o","o","l">>
     @@ "util" :> <<"u","t","i","l">>
     @@ ".json" :> <<".","j","s","o","n">>
     @@ ".yaml" :> <<".","y","a","m","l">>
     @@ "Guide" :> <<"G","u","i","d","e">>
     @@ "SKILL" :> <<"S","K","I","L","L">>
     @@ "guide" :> <<"g","u","i","d","e">>
     @@ "tests" :> <<"t","e","s","t","s">>
     @@ "utils" :> <<"u","t","i","l","s">>
     @@ "README" :> <<"R","E","A","D","M","E">>
     @@ "agents" :> <<"a","g","e","n","t","s">>
     @@ "author" :> <<"a","u","t","h","o","r">>
     @@ "compat" :> <<"c","o","m","p","a","t">>
     @@ "helper" :> <<"h","e","l","p","e","r">>
     @@ "legacy" :> <<"l","e","g","a","c","y">>
     @@ "openai" :> <<"o","p","e","n","a","i">>
     @@ "default" :> <<"d","e","f","a","u","l","t">>
     @@ "foo_bar" :> <<"f","o","o","_","b","a","r">>
     @@ "helpers" :> <<"h","e","l","p","e","r","s">>
     @@ "outside" :> <<"o","u","t","s","i","d","e">>
     @@ "scripts" :> <<"s","c","r","i","p","t","s">>
     @@ "..hidden" :> <<".",".","h","i","d","d","e","n">>
     @@ "Guide.MD" :> <<"G","u","i","d","e",".","M","D">>
     @@ "SKILL.md" :> <<"S","K","I","L","L",".","m","d">>
     @@ "backward" :> <<"b","a","c","k","w","a","r","d">>
     @@ "data.bin" :> <<"d","a","t","a",".","b","i","n">>
     @@ "guide.md" :> <<"g","u","i","d","e",".","m","d">>
     @@ "my_utils" :> <<"m","y","_","u","t","i","l","s">>
     @@ "notes v2" :> <<"n","o","t","e","s"," ","v","2">>
     @@ "notes.md" :> <<"n","o","t","e","s",".","m","d">>
     @@ "old_shim" :> <<"o","l","d","_","s","h","i","m">>
     @@ "optional" :> <<"o","p","t","i","o","n","a","l">>
     @@ "tool.exe" :> <<"t","o","o","l",".","e","x","e">>
     @@ "old_tmp v2" :> <<"o","l","d","_","t","m","p"," ","v","2">>
     @@ "old_tmp v2.bin" :> <<"o","l","d","_","t","m","p"," ","v","2",".","b","i","n">>
     @@ "helper.exe" :> <<"h","e","l","p","e","r",".","e","x","e">>
     @@ "README.md" :> <<"R","E","A","D","M","E",".","m","d">>
     @@ "abs-notes" :> <<"a","b","s","-","n","o","t","e","s">>
     @@ "helper.md" :> <<"h","e","l","p","e","r",".","m","d">>
     @@ "reference" :> <<"r","e","f","e","r","e","n","c","e">>
     @@ "deprecated" :> <<"d","e","p","r","e","c","a","t","e","d">>
     @@ "other-tool" :> <<"o","t","h","e","r","-","t","o","o","l">>
     @@ "outside.md" :> <<"o","u","t","s","i","d","e",".","m","d">>
     @@ "references" :> <<"r","e","f","e","r","e","n","c","e","s">>
     @@ "run-checks" :> <<"r","u","n","-","c","h","e","c","k","s">>
     @@ "start-here" :> <<"s","t","a","r","t","-","h","e","r","e">>
     @@ "workaround" :> <<"w","o","r","k","a","r","o","u","n","d">>
     @@ "bagakit-Foo" :> <<"b","a","g","a","k","i","t","-","F","o","o">>
     @@ "bagakit-bar" :> <<"b","a","g","a","k","i","t","-","b","a","r">>
     @@ "bagakit-foo" :> <<"b","a","g","a","k","i","t","-","f","o","o">>
     @@ "description" :> <<"d","e","s","c","r","i","p","t","i","o","n">>
     @@ "my_utils.py" :> <<"m","y","_","u","t","i","l","s",".","p","y">>
     @@ "notes v2.md" :> <<"n","o","t","e","s"," ","v","2",".","m","d">>
     @@ "openai.yaml" :> <<"o","p","e","n","a","i",".","y","a","m","l">>
     @@ "abs-notes.md" :> <<"a","b","s","-","n","o","t","e","s",".","m","d">>
     @@ "binary-notes" :> <<"b","i","n","a","r","y","-","n","o","t","e","s">>
     @@ "old_shim.txt" :> <<"o","l","d","_","s","h","i","m",".","t","x","t">>
     @@ "legacy-helper" :> <<"l","e","g","a","c","y","-","h","e","l","p","e","r">>
     @@ "run-checks.sh" :> <<"r","u","n","-","c","h","e","c","k","s",".","s","h">>
     @@ "start-here.md" :> <<"s","t","a","r","t","-","h","e","r","e",".","m","d">>
     @@ "template-note" :> <<"t","e","m","p","l","a","t","e","-","n","o","t","e">>
     @@ "bagakit-series" :> <<"b","a","g","a","k","i","t","-","s","e","r","i","e","s">>
     @@ "driver_longrun" :> <<"d","r","i","v","e","r","_","l","o","n","g","r","u","n">>
     @@ "binary-notes.md" :> <<"b","i","n","a","r","y","-","n","o","t","e","s",".","m","d">>
     @@ "driver_openspec" :> <<"d","r","i","v","e","r","_","o","p","e","n","s","p","e","c">>
     @@ "driver_ftharness" :> <<"d","r","i","v","e","r","_","f","t","h","a","r","n","e","s","s">>
     @@ "legacy-helper.md" :> <<"l","e","g","a","c","y","-","h","e","l","p","e","r",".","m","d">>
     @@ "template-note.md" :> <<"t","e","m","p","l","a","t","e","-","n","o","t","e",".","m","d">>
     @@ "SKILL_PAYLOAD.json" :> <<"S","K","I","L","L","_","P","A","Y","L","O","A","D",".","j","s","o","n">>
     @@ "aaaaaaaaaaaaaaaaaaaaaaaaaaaaaaaaaaaaaaaaaaaaaaaaaaaaaaaaaaaaaaa-" :> <<"a","a","a","a","a","a","a","a","a","a","a","a","a","a","a","a","a","a","a","a","a","a","a","a","a","a","a","a","a","a","a","a","a","a","a","a","a","a","a","a","a","a","a","a","a","a","a","a","a","a","a","a","a","a","a","a","a","a","a","a","a","a","a","-">>
     @@ "aaaaaaaaaaaaaaaaaaaaaaaaaaaaaaaaaaaaaaaaaaaaaaaaaaaaaaaaaaaaaaaa" :> <<"a","a","a","a","a","a","a","a","a","a","a","a","a","a","a","a","a","a","a","a","a","a","a","a","a","a","a","a","a","a","a","a","a","a","a","a","a","a","a","a","a","a","a","a","a","a","a","a","a","a","a","a","a","a","a","a","a","a","a","a","a","a","a","a">>
     @@ "aaaaaaaaaaaaaaaaaaaaaaaaaaaaaaaaaaaaaaaaaaaaaaaaaaaaaaaaaaaaaaaaa" :> <<"a","a","a","a","a","a","a","a","a","a","a","a","a","a","a","a","a","a","a","a","a","a","a","a","a","a","a","a","a","a","a","a","a","a","a","a","a","a","a","a","a","a","a","a","a","a","a","a","a","a","a","a","a","a","a","a","a","a","a","a","a","a","a","a","a">>)

\* any(hint in description for hint in PLACEHOLDER_HINTS)
PLACEHOLDER_HINTS_values ==
    {"TODO: replace me"}

\* re.search(r"\bwhen\b|...", description.lower())
TriggerWording_values ==
    {"Use when needed.", "Use when validating skill bundles before a release."}

\* len(description) < 40
ShortDescription_values ==
    {"TODO: replace me", "Use when needed.", "Validates bundles."}

\* Path(entry).parts of the manifest entries of the vocabulary
PartsTable ==
    ("SKILL.md" :> <<"SKILL.md">>
     @@ "README.md" :> <<"README.md">>
     @@ "scripts" :> <<"scripts">>
     @@ "agents" :> <<"agents">>
     @@ "reference" :> <<"reference">>
     @@ "references" :> <<"references">>
     @@ "../outside.md" :> <<"..", "outside.md">>
     @@ "/tmp/outside.md" :> <<"/", "tmp", "outside.md">>
     @@ "notes.md" :> <<"notes.md">>
     @@ "..hidden" :> <<"..hidden">>
     @@ "reference/start-here.md" :> <<"reference", "start-here.md">>)

\* path.startswith("/")
StartsWithSlash_entries ==
    {"/tmp/outside.md"}

\* Path.stem and Path.suffix of the file names of the vocabulary
StemTable ==
    ("Guide.MD" :> "Guide"
     @@ "README.md" :> "README"
     @@ "SKILL.md" :> "SKILL"
     @@ "abs-notes.md" :> "abs-notes"
     @@ "binary-notes.md" :> "binary-notes"
     @@ "data.bin" :> "data"
     @@ "guide.md" :> "guide"
     @@ "helper.md" :> "helper"
     @@ "legacy-helper.md" :> "legacy-helper"
     @@ "my_utils.py" :> "my_utils"
     @@ "notes v2.md" :> "notes v2"
     @@ "old_shim.txt" :> "old_shim"
     @@ "openai.yaml" :> "openai"
     @@ "outside.md" :> "outside"
     @@ "run-checks.sh" :> "run-checks"
     @@ "start-here.md" :> "start-here"
     @@ "template-note.md" :> "template-note"
     @@ "old_tmp v2.bin" :> "old_tmp v2"
     @@ "helper.exe" :> "helper"
     @@ "tool.exe" :> "tool")

SuffixTable ==
    ("Guide.MD" :> ".MD"
     @@ "README.md" :> ".md"
     @@ "SKILL.md" :> ".md"
     @@ "abs-notes.md" :> ".md"
     @@ "binary-notes.md" :> ".md"
     @@ "data.bin" :> ".bin"
     @@ "guide.md" :> ".md"
     @@ "helper.md" :> ".md"
     @@ "legacy-helper.md" :> ".md"
     @@ "my_utils.py" :> ".py"
     @@ "notes v2.md" :> ".md"
     @@ "old_shim.txt" :> ".txt"
     @@ "openai.yaml" :> ".yaml"
     @@ "outside.md" :> ".md"
     @@ "run-checks.sh" :> ".sh"
     @@ "start-here.md" :> ".md"
     @@ "template-note.md" :> ".md"
     @@ "old_tmp v2.bin" :> ".bin"
     @@ "helper.exe" :> ".exe"
     @@ "tool.exe" :> ".exe")

StartHere == [path |-> <<"reference", "start-here.md">>, decodable |-> TRUE,
    lines |-> <<<<"plain words">>>>]

TemplateNote == [path |-> <<"reference", "tpl", "template-note.md">>, decodable |-> TRUE,
    lines |-> <<<<"plain words">>>>]

LegacyHelper == [path |-> <<"reference", "legacy-helper.md">>, decodable |-> TRUE,
    lines |-> <<<<"plain words">>>>]

Helper == [path |-> <<"reference", "helper.md">>, decodable |-> TRUE,
    lines |-> <<<<"plain words">>>>]

OldShim == [path |-> <<"reference", "old_shim.txt">>, decodable |-> TRUE,
    lines |-> <<<<"plain words">>>>]

AbsNotes == [path |-> <<"reference", "abs-notes.md">>, decodable |-> TRUE,
    lines |-> <<<<"see", "/home/alice/project/file.md">>, <<"see", "./relative/file.md">>, <<"C:\\Users\\bob\\file.txt", "and", "/tmp/x/y">>>>]

BinaryNotes == [path |-> <<"reference", "binary-notes.md">>, decodable |-> FALSE,
    lines |-> <<<<"see", "/home/alice/project/file.md">>, <<"see", "./relative/file.md">>, <<"C:\\Users\\bob\\file.txt", "and", "/tmp/x/y">>>>]

GuideUpper == [path |-> <<"reference", "Guide.MD">>, decodable |-> TRUE,
    lines |-> <<<<"see", "/home/alice/project/file.md">>>>]

NotesV2 == [path |-> <<"reference", "notes v2.md">>, decodable |-> TRUE,
    lines |-> <<<<"plain words">>>>]

DataBin == [path |-> <<"reference", "data.bin">>, decodable |-> FALSE,
    lines |-> <<<<"plain words">>>>]

RunChecks == [path |-> <<"scripts", "run-checks.sh">>, decodable |-> TRUE,
    lines |-> <<<<"see", "/home/alice/project/file.md">>>>]

ToolExe == [path |-> <<"scripts", "tool.exe">>, decodable |-> FALSE,
    lines |-> <<<<"plain words">>>>]

MyUtils == [path |-> <<"scripts", "my_utils.py">>, decodable |-> TRUE,
    lines |-> <<<<"plain words">>>>]

LegacyGuide == [path |-> <<"references", "guide.md">>, decodable |-> TRUE,
    lines |-> <<<<"see", "/home/alice/project/file.md">>>>]

OpenaiYaml == [path |-> <<"agents", "openai.yaml">>, decodable |-> TRUE,
    lines |-> <<<<"see", "/home/alice/project/file.md">>>>]

Readme == [path |-> <<"README.md">>, decodable |-> TRUE,
    lines |-> <<<<"see", "/home/alice/project/file.md">>>>]

OutsideSibling == [path |-> <<"..", "outside.md">>, decodable |-> TRUE,
    lines |-> <<<<"see", "/home/alice/project/file.md">>>>]

OldTmpBin == [path |-> <<"reference", "old_tmp v2.bin">>, decodable |-> FALSE,
    lines |-> <<<<"plain words">>>>]

HelperExe == [path |-> <<"scripts", "helper.exe">>, decodable |-> FALSE,
    lines |-> <<<<"plain words">>>>]

OutsideAbs == [path |-> <<"/", "tmp", "outside.md">>, decodable |-> TRUE,
    lines |-> <<<<"see", "/home/alice/project/file.md">>>>]

\* ord(c) of the characters of the vocabulary: Python orders strings by code point
OrdTable ==
    (" " :> 32 @@ "-" :> 45 @@ "." :> 46 @@ "/" :> 47 @@ "2" :> 50 @@ "A" :> 65 @@ "D" :> 68
     @@ "E" :> 69 @@ "F" :> 70 @@ "G" :> 71 @@ "I" :> 73 @@ "K" :> 75 @@ "L" :> 76 @@ "M" :> 77
     @@ "O" :> 79 @@ "P" :> 80 @@ "R" :> 82 @@ "S" :> 83 @@ "Y" :> 89 @@ "_" :> 95 @@ "a" :> 97
     @@ "b" :> 98 @@ "c" :> 99 @@ "d" :> 100 @@ "e" :> 101 @@ "f" :> 102 @@ "g" :> 103 @@ "h" :> 104
     @@ "i" :> 105 @@ "j" :> 106 @@ "k" :> 107 @@ "l" :> 108 @@ "m" :> 109 @@ "n" :> 110 @@ "o" :> 111
     @@ "p" :> 112 @@ "r" :> 114 @@ "s" :> 115 @@ "t" :> 116 @@ "u" :> 117 @@ "v" :> 118 @@ "w" :> 119
     @@ "x" :> 120 @@ "y" :> 121)

\* str.lower(), character by character
LowerTable ==
    ("A" :> "a" @@ "D" :> "d" @@ "E" :> "e" @@ "F" :> "f" @@ "G" :> "g" @@ "I" :> "i" @@ "K" :> "k"
     @@ "L" :> "l" @@ "M" :> "m" @@ "O" :> "o" @@ "P" :> "p" @@ "R" :> "r" @@ "S" :> "s" @@ "Y" :> "y")



(***************************************************************************)
(* Strings.  A string the program inspects character by character is       *)
(* looked up in CharTable; Python compares strings by code point.          *)
(***************************************************************************)
Range(s) == {s[i] : i \in DOMAIN s}

Chars(s) == IF s \in DOMAIN CharTable THEN CharTable[s] ELSE <<>>

LowerChar(c) == IF c \in DOMAIN LowerTable THEN LowerTable[c] ELSE c

lower(cs) == [i \in DOMAIN cs |-> LowerChar(cs[i])]

RECURSIVE CharsLess(_, _)
CharsLess(a, b) ==
    IF b = <<>> THEN FALSE
    ELSE IF a = <<>> THEN TRUE
    ELSE IF Head(a) = Head(b) THEN CharsLess(Tail(a), Tail(b))
    ELSE OrdTable[Head(a)] < OrdTable[Head(b)]

StrLess(s, t) == CharsLess(Chars(s), Chars(t))

\* sorted(set(...)) of strings
RECURSIVE sorted_strings(_)
sorted_strings(S) ==
    IF S = {} THEN <<>>
    ELSE LET least == CHOOSE x \in S : \A y \in S \ {x} : StrLess(x, y)
         IN  <<least>> \o sorted_strings(S \ {least})

\* PurePath ordering: the tuples of parts, compared part by part
RECURSIVE PathLess(_, _)
PathLess(p, q) ==
    IF q = <<>> THEN FALSE
    ELSE IF p = <<>> THEN TRUE
    ELSE IF Head(p) = Head(q) THEN PathLess(Tail(p), Tail(q))
    ELSE StrLess(Head(p), Head(q))

\* an enumeration used in the order it was handed out, the call of sorted() left out
listing_order(es) == es

\* sorted(...) of an enumeration of paths: a sequence of file-system entries
RECURSIVE sorted_entries(_)
sorted_entries(es) ==
    IF es = <<>> THEN <<>>
    ELSE LET S == Range(es)
             least == CHOOSE x \in S : \A y \in S \ {x} : PathLess(x.path, y.path)
         IN  <<least>> \o sorted_entries(SelectSeq(es, LAMBDA e : e # least))

(***************************************************************************)
(* Diagnostics: the message text up to its first placeholder, the path or  *)
(* token it cites, a list it cites, and a line number (0 when none).       *)
(***************************************************************************)
Diag(m, a, x, n) == [msg |-> m, arg |-> a, extra |-> x, line |-> n]

D0(m) == Diag(m, <<>>, <<>>, 0)

RECURSIVE Flatten(_)
Flatten(ss) == IF ss = <<>> THEN <<>> ELSE Head(ss) \o Flatten(Tail(ss))

(***************************************************************************)
(* Header of SKILL.md                                                      *)
(***************************************************************************)
Delimiter == <<"---">>

LineHasColon(line) == \E i \in DOMAIN line : line[i] \in HasColon_atoms

strip_value(v) == IF v \in DOMAIN StripTable THEN StripTable[v] ELSE v

\* key, value = line.split(":", 1); the key atom comes first in a header line
KeyOf(line) == IF line[1] \in DOMAIN KeyTable THEN KeyTable[line[1]] ELSE line[1]

ValueOf(line) == IF Len(line) >= 2 THEN strip_value(line[2]) ELSE ""

\* lines.index("---", 1): 0 stands for ValueError
IndexOfClose(text) ==
    IF \E i \in 2..Len(text) : text[i] = Delimiter
    THEN CHOOSE i \in 2..Len(text) :
            text[i] = Delimiter /\ \A j \in 2..(i - 1) : text[j] # Delimiter
    ELSE 0

RECURSIVE HeaderLoop(_, _, _, _)
HeaderLoop(text, i, end, acc) ==
    IF i >= end THEN acc
    ELSE LET raw == text[i] IN
         IF raw = <<>> THEN HeaderLoop(text, i + 1, end, acc)
         ELSE IF ~LineHasColon(raw)
         THEN HeaderLoop(text, i + 1, end,
                [acc EXCEPT !.errors = @ \o <<Diag("invalid frontmatter line", <<>>, raw, 0)>>])
         ELSE HeaderLoop(text, i + 1, end,
                [acc EXCEPT !.kv = [k \in DOMAIN @ \cup {KeyOf(raw)} |->
                                       IF k = KeyOf(raw) THEN ValueOf(raw) ELSE @[k]]])

EmptyDict == [k \in {} |-> ""]

parse_frontmatter(text) ==
    IF Len(text) < 3 \/ text[1] # Delimiter
    THEN [kv |-> EmptyDict,
          errors |-> <<D0("SKILL.md must start with YAML frontmatter ('---')")>>]
    ELSE IF IndexOfClose(text) = 0
    THEN [kv |-> EmptyDict, errors |-> <<D0("SKILL.md frontmatter is not closed with '---'")>>]
    ELSE HeaderLoop(text, 2, IndexOfClose(text), [kv |-> EmptyDict, errors |-> <<>>])

Get(kv, key) == IF key \in DOMAIN kv THEN kv[key] ELSE ""

NameMiddleMax == 62

LowerAlnum ==
    {"a", "b", "c", "d", "e", "f", "g", "h", "i", "j", "k", "l", "m", "n", "o", "p", "q", "r",
     "s", "t", "u", "v", "w", "x", "y", "z", "0", "1", "2", "3", "4", "5", "6", "7", "8", "9"}

\* the pattern with its length bound off by one: [a-z0-9-]{0,63}
NAME_RE_one_longer(n) ==
    LET c == Chars(n) IN
    /\ Len(c) >= 1
    /\ c[1] \in LowerAlnum
    /\ \/ Len(c) = 1
       \/ /\ Len(c) - 2 <= NameMiddleMax + 1
          /\ \A i \in 2..(Len(c) - 1) : c[i] \in LowerAlnum \cup {"-"}
          /\ c[Len(c)] \in LowerAlnum

\* NAME_RE.match(name): ^[a-z0-9](?:[a-z0-9-]{0,62}[a-z0-9])?$
NAME_RE(n) ==
    LET c == Chars(n) IN
    /\ Len(c) >= 1
    /\ c[1] \in LowerAlnum
    /\ \/ Len(c) = 1
       \/ /\ Len(c) - 2 <= NameMiddleMax
          /\ \A i \in 2..(Len(c) - 1) : c[i] \in LowerAlnum \cup {"-"}
          /\ c[Len(c)] \in LowerAlnum

MissingName == D0("frontmatter missing required key: name")

InvalidName == D0("frontmatter name is invalid; expected lowercase letters/digits/hyphens, max 64 chars")

\* cmd_validate, the checks of `name`
name_errors(n) ==
    IF n = "" THEN <<MissingName>>
    ELSE IF ~NAME_RE(n) THEN <<InvalidName>>
    ELSE <<>>

\* cmd_validate, the checks of `description`
description_errors(d) ==
    IF d = "" THEN <<D0("frontmatter missing required key: description")>>
    ELSE IF d \in PLACEHOLDER_HINTS_values
    THEN <<D0("frontmatter description still looks like placeholder text")>>
    ELSE IF d \notin TriggerWording_values
    THEN <<D0("frontmatter description should include clear trigger wording (e.g. 'use when ...')")>>
    ELSE <<>>

description_warnings(d) ==
    IF d # "" /\ d \in ShortDescription_values
    THEN <<D0("frontmatter description may be too short for accurate triggering")>>
    ELSE <<>>

unknown_keys_errors(kv) ==
    LET unknown == sorted_strings(DOMAIN kv \ {"name", "description"}) IN
    IF unknown # <<>> THEN <<Diag("frontmatter has unsupported keys", <<>>, unknown, 0)>>
    ELSE <<>>


(***************************************************************************)
(* The file system.  bundle.dirs are the directories and bundle.files the  *)
(* files, each named by the parts of its path relative to the bundle root  *)
(* (a path that starts with ".." or "/" lies outside the bundle).          *)
(***************************************************************************)
SkillPath == <<"SKILL.md">>

PayloadPath == <<"SKILL_PAYLOAD.json">>

SkillFile == [path |-> SkillPath, decodable |-> bundle.skill.decodable, lines |-> bundle.skill.lines]

Files == bundle.files \cup (IF bundle.skill_exists THEN {SkillFile} ELSE {})

is_file(p) == \E f \in Files : f.path = p

is_dir(p) == p \in bundle.dirs

exists(p) == is_file(p) \/ is_dir(p) \/ (p = PayloadPath /\ bundle.payload_exists)

Parts(entry) == PartsTable[entry]

FileName(p) == p[Len(p)]

suffix_lower(p) == lower(Chars(SuffixTable[FileName(p)]))

stem_lower(p) == lower(Chars(StemTable[FileName(p)]))

REFERENCE_DIR_CANONICAL == "reference"

REFERENCE_DIR_LEGACY == "references"

REFERENCE_DIR_ALIASES == <<REFERENCE_DIR_CANONICAL, REFERENCE_DIR_LEGACY>>

detect_reference_layout ==
    [canonical |-> exists(<<REFERENCE_DIR_CANONICAL>>), legacy |-> exists(<<REFERENCE_DIR_LEGACY>>)]

(***************************************************************************)
(* SKILL_PAYLOAD.json                                                      *)
(***************************************************************************)
\* load_payload: only FileNotFoundError and json.JSONDecodeError are caught
load_payload(payload) ==
    IF payload.kind = "undecodable" THEN [status |-> "raise", errors |-> <<>>, exc |-> "UnicodeDecodeError"]
    ELSE IF payload.kind = "unreadable" THEN [status |-> "raise", errors |-> <<>>, exc |-> "PermissionError"]
    ELSE IF payload.kind = "invalid_json"
    THEN [status |-> "none", errors |-> <<Diag("invalid json in", PayloadPath, <<>>, 0)>>, exc |-> ""]
    ELSE IF payload.kind # "object"
    THEN [status |-> "none", errors |-> <<Diag("payload root must be object", PayloadPath, <<>>, 0)>>, exc |-> ""]
    ELSE [status |-> "data", errors |-> <<>>, exc |-> ""]

\* isinstance(raw_include, list) and all(isinstance(item, str) for item in raw_include)
IncludeWellTyped(payload) == payload.include_kind = "strings"

IncludeTypeError == D0("SKILL_PAYLOAD.json include must be an array of strings")

\* the value of `include` when the manifest's items are kept after a failed load
include_of_kept(payload) == payload.items

\* cmd_validate: the value of `include` after the type check
include_of(payload) ==
    IF load_payload(payload).status = "data" /\ IncludeWellTyped(payload) THEN payload.items
    ELSE <<>>

include_type_errors(payload) ==
    IF load_payload(payload).status = "data" /\ ~IncludeWellTyped(payload)
    THEN <<IncludeTypeError>> ELSE <<>>

\* path.startswith("/") or ".." in Path(path).parts
Escapes(entry) == entry \in StartsWithSlash_entries \/ ".." \in Range(Parts(entry))

StayInside(entry) == Diag("payload path must stay inside skill directory", <<>>, <<entry>>, 0)

MissingOnDisk(entry) == Diag("payload path missing on disk", <<>>, <<entry>>, 0)

DuplicateItems == D0("SKILL_PAYLOAD.json include contains duplicate items")

MustContainSkill == D0("SKILL_PAYLOAD.json include must contain SKILL.md")

MustNotContainReadme == D0("SKILL_PAYLOAD.json include must not contain README.md")

MissingDirectory(d) == Diag("payload includes missing directory", <<d>>, <<>>, 0)

NotIncluded(d) == Diag("directory exists but not included in payload", d, <<>>, 0)

\* the loop `for path in include` of cmd_validate
path_errors(inc) ==
    Flatten([i \in DOMAIN inc |->
        IF Escapes(inc[i]) THEN <<StayInside(inc[i])>>
        ELSE IF ~exists(Parts(inc[i])) THEN <<MissingOnDisk(inc[i])>>
        ELSE <<>>])

\* the paths that loop asks the file system about
path_probes(inc) == {Parts(inc[i]) : i \in {j \in DOMAIN inc : ~Escapes(inc[j])}}

runtime_dir_errors(inc, dirs) ==
    Flatten([i \in DOMAIN dirs |->
        IF dirs[i] \in Range(inc) /\ ~exists(<<dirs[i]>>) THEN <<MissingDirectory(dirs[i])>>
        ELSE <<>>])

runtime_dir_warnings(inc, dirs) ==
    Flatten([i \in DOMAIN dirs |->
        IF exists(<<dirs[i]>>) /\ dirs[i] \notin Range(inc) THEN <<NotIncluded(<<dirs[i]>>)>>
        ELSE <<>>])

\* cmd_validate, the block `if include:`: errors
include_errors(inc) ==
    IF inc = <<>> THEN <<>>
    ELSE   (IF Cardinality(Range(inc)) # Len(inc) THEN <<DuplicateItems>> ELSE <<>>)
        \o (IF "SKILL.md" \notin Range(inc) THEN <<MustContainSkill>> ELSE <<>>)
        \o (IF "README.md" \in Range(inc) THEN <<MustNotContainReadme>> ELSE <<>>)
        \o path_errors(inc)
        \o runtime_dir_errors(inc, <<"scripts", "agents">>)
        \o runtime_dir_errors(inc, REFERENCE_DIR_ALIASES)

\* cmd_validate, the block `if include:`: warnings
include_warnings(inc) ==
    LET layout == detect_reference_layout
        has_reference_include == \E i \in DOMAIN REFERENCE_DIR_ALIASES :
                                     REFERENCE_DIR_ALIASES[i] \in Range(inc)
    IN
    IF inc = <<>> THEN <<>>
    ELSE   runtime_dir_warnings(inc, <<"scripts", "agents">>)
        \o (IF (layout.canonical \/ layout.legacy) /\ ~has_reference_include
            THEN <<NotIncluded(REFERENCE_DIR_ALIASES)>> ELSE <<>>)
        \o (IF layout.canonical /\ ~is_dir(<<REFERENCE_DIR_CANONICAL, "tpl">>)
            THEN <<D0("reference layout should include reference/tpl for reusable templates")>>
            ELSE <<>>)
        \o (IF layout.legacy /\ ~layout.canonical
            THEN <<D0("legacy references/ layout detected; prefer reference/ with reference/tpl")>>
            ELSE <<>>)
        \o (IF layout.canonical /\ layout.legacy
            THEN <<D0("both reference/ and references/ exist; prefer one canonical layout (reference/ + reference/tpl)")>>
            ELSE <<>>)


(***************************************************************************)
(* Sections and structural rules of SKILL.md.  Every line is terminated by *)
(* a newline; a list-marker atom is followed by another atom on its line.  *)
(***************************************************************************)
LineHas(line, atoms) == \E i \in DOMAIN line : line[i] \in atoms

\* `hint in text.lower()` for some hint of the family, over a sequence of lines
TextHas(text, atoms) == \E i \in DOMAIN text : LineHas(text[i], atoms)

\* re.search(r"(?m)^##\s+", ...) at the start of this line
IsH2(line) == line # <<>> /\ line[1] \in H2Start_atoms

\* a match of r"(?m)^\s*[-*]\s+\S" that starts on this line
IsBullet(line) == Len(line) >= 2 /\ line[1] \in {"-", "*"}

\* the line matches the heading pattern (re.IGNORECASE | re.MULTILINE)
IsHeading(line, heading) == Len(line) = 1 /\ line[1] \in heading

FirstIndex(text, P(_), from) ==
    IF \E i \in from..Len(text) : P(text[i])
    THEN CHOOSE i \in from..Len(text) : P(text[i]) /\ \A j \in from..(i - 1) : ~P(text[j])
    ELSE 0

\* section_block: found is FALSE for None; lines are the lines of the block after the
\* heading line; empty is TRUE when the returned string is ""
section_block(text, heading) ==
    LET h == FirstIndex(text, LAMBDA l : IsHeading(l, heading), 1)
        n == IF h = 0 THEN 0 ELSE FirstIndex(text, IsH2, h + 1)
        last == IF n = 0 THEN Len(text) ELSE n - 1
    IN  IF h = 0 THEN [found |-> FALSE, lines |-> <<>>, empty |-> TRUE]
        ELSE [found |-> TRUE,
              lines |-> SubSeq(text, h + 1, last),
              empty |-> \A j \in (h + 1)..Len(text) : text[j] = <<>>]

section_has_bullets(text, heading, min_count) ==
    LET block == section_block(text, heading) IN
    /\ block.found
    /\ Cardinality({i \in DOMAIN block.lines : IsBullet(block.lines[i])}) >= min_count

MAX_SKILL_LINES == 500

BagakitPrefix == <<"b", "a", "g", "a", "k", "i", "t", "-">>

\* bool(name) and name.startswith("bagakit-")
is_bagakit_series(n) ==
    Len(Chars(n)) >= Len(BagakitPrefix) /\ SubSeq(Chars(n), 1, Len(BagakitPrefix)) = BagakitPrefix

Anchor == <<"[[BAGAKIT]]">>

has_bagakit_anchor(text) == \E i \in DOMAIN text : text[i] = Anchor

\* r"(?m)^\[\[BAGAKIT\]\]\s*\n(?:- .+\n)+"
has_bagakit_peer_lines(text) ==
    \E i \in DOMAIN text :
        /\ text[i] = Anchor
        /\ \E j \in (i + 1)..Len(text) :
              /\ Len(text[j]) >= 2 /\ text[j][1] = "-"
              /\ \A k \in (i + 1)..(j - 1) : text[k] = <<>>

Cond(c, d) == IF c THEN <<D0(d)>> ELSE <<>>

footer_errors(text, n) ==
    IF ~has_bagakit_anchor(text)
    THEN Cond(is_bagakit_series(n), "SKILL.md must define [[BAGAKIT]] footer contract for bagakit-* skills")
    ELSE Cond(is_bagakit_series(n) /\ ~has_bagakit_peer_lines(text),
              "bagakit-* skills must keep canonical [[BAGAKIT]] format: anchor line followed by peer '- ...' lines")

footer_warnings(text, n) ==
    Cond(~has_bagakit_anchor(text) /\ ~is_bagakit_series(n),
         "SKILL.md has no [[BAGAKIT]] footer contract; this is fine for generic mode, but required if Bagakit profile is enabled")

output_errors(text) ==
    LET block == section_block(text, HeadingOutput)
        o == block.lines
        has_adapter_route == TextHas(o, ADAPTER_HINTS_atoms)
        has_no_adapter_policy == TextHas(o, NO_ADAPTER_HINTS_atoms)
    IN  IF ~block.found \/ block.empty THEN <<>>
        ELSE   Cond(~TextHas(o, HasDefault_atoms), "output section must explicitly mention default route behavior")
            \o Cond(~(has_adapter_route \/ has_no_adapter_policy),
                    "output section must declare adapter policy: optional adapter routes or explicit standalone/no-adapter statement")
            \o Cond(~TextHas(o, ACTION_HINTS_atoms), "output section must define an action handoff output")
            \o Cond(~(TextHas(o, MEMORY_HINTS_atoms) \/ TextHas(o, MEMORY_NONE_HINTS_atoms)),
                    "output section must define a memory/summary handoff output (or explicit none rationale)")

output_warnings(text) ==
    LET block == section_block(text, HeadingOutput)
        o == block.lines
    IN  IF ~block.found \/ block.empty THEN <<>>
        ELSE   Cond(TextHas(o, ADAPTER_HINTS_atoms) /\ ~TextHas(o, HasOptionalZh_atoms),
                    "adapter routes should be marked optional to preserve standalone-first behavior")
            \o Cond(TextHas(o, CONCRETE_ADAPTER_HINTS_atoms) /\ ~TextHas(o, GENERIC_ADAPTER_HINTS_atoms),
                    "output routing appears concrete-name-bound; describe generic adapter classes/capability rules first")
            \o Cond(TextHas(o, HasOnlyWhenNo_atoms) /\ TextHas(o, HasDetected_atoms),
                    "fallback wording is too narrow; cover no external driver usable (not detected / unresolved / invalid contract)")
            \o Cond(~TextHas(o, ARCHETYPE_HINTS_atoms), "output section should classify deliverable archetype/type")

archive_errors(text) ==
    LET block == section_block(text, HeadingArchive)
        a == block.lines
    IN  IF ~block.found \/ block.empty THEN <<>>
        ELSE   Cond(~TextHas(a, ARCHIVE_HINTS_atoms), "archive section must explicitly include destination path/id evidence")
            \o Cond(~TextHas(a, ACTION_HINTS_atoms), "archive section must mention action handoff destination")
            \o Cond(~(TextHas(a, MEMORY_HINTS_atoms) \/ TextHas(a, MEMORY_NONE_HINTS_atoms)),
                    "archive section must mention memory handoff destination (or explicit none rationale)")

archive_warnings(text) ==
    LET block == section_block(text, HeadingArchive) IN
    IF ~block.found \/ block.empty THEN <<>>
    ELSE Cond(~TextHas(block.lines, COMPLETION_HINTS_atoms),
              "archive section should state completion gate conditions explicitly")

\* cmd_validate from `lines = skill_text.splitlines()` to the archive block: errors
structure_errors(text, n) ==
       (IF Len(text) > MAX_SKILL_LINES
        THEN <<Diag("SKILL.md must stay within MAX_SKILL_LINES lines", <<>>, <<>>, Len(text))>> ELSE <<>>)
    \o footer_errors(text, n)
    \o Cond(~TextHas(text, HasStandalone_atoms), "SKILL.md must state standalone-first design explicitly")
    \o Cond(~(TextHas(text, HasOptional_atoms) /\ TextHas(text, CONTRACT_KEYS_atoms)),
            "SKILL.md must describe optional cross-skill contract/signal exchange")
    \o Cond(~TextHas(text, HasWorkflowHeading_atoms), "SKILL.md must include a '## Workflow' section")
    \o Cond(~section_has_bullets(text, HeadingWhenToUse, 2),
            "SKILL.md must include '## When to Use' section with at least 2 bullet items")
    \o Cond(~section_has_bullets(text, HeadingWhenNotToUse, 2),
            "SKILL.md must include '## When NOT to Use' section with at least 2 bullet items")
    \o Cond(~section_has_bullets(text, HeadingFallback, 1),
            "SKILL.md must include a fallback section with at least 1 bullet action")
    \o Cond(~section_has_bullets(text, HeadingOutput, 2),
            "SKILL.md must include output routes/default section with at least 2 bullet items")
    \o Cond(~section_has_bullets(text, HeadingArchive, 1),
            "SKILL.md must include archive gate/hand-off section with at least 1 bullet action")
    \o output_errors(text)
    \o archive_errors(text)

\* the same block: warnings
structure_warnings(text, n) ==
    footer_warnings(text, n) \o output_warnings(text) \o archive_warnings(text)


(***************************************************************************)
(* CouplingScanner and ContractScanner                                     *)
(***************************************************************************)
NON_SKILL_BAGAKIT_TOKENS == {"bagakit-series", "bagakit-profile", "bagakit-profile-guide", "bagakit-home"}

TokensOfAtom(a) == IF a \in DOMAIN TokenTable THEN TokenTable[a] ELSE <<>>

\* re.findall(r"\bbagakit-[a-z0-9-]+\b", lower)
TokensOf(line) == Flatten([i \in DOMAIN line |-> TokensOfAtom(line[i])])

line_is_optional_contract(line) == LineHas(line, OPTIONAL_HINTS_atoms)

\* any(hint in lower for hint in COUPLING_HINTS); the hint "sh " ends with a space
line_has_coupling(line) ==
    \/ LineHas(line, COUPLING_HINTS_atoms)
    \/ \E i \in 1..(Len(line) - 1) : line[i] \in EndsSh_atoms

\* group 1 of re.search(r"/skills/([a-z0-9-]+)", lower), "" when there is no match
direct_skill_match(line) ==
    LET hits == {i \in DOMAIN line : line[i] \in DOMAIN SkillTargetTable} IN
    IF hits = {} THEN ""
    ELSE SkillTargetTable[line[CHOOSE i \in hits : \A j \in hits : i <= j]]

CrossSkill(idx, token) ==
    Diag("cross-skill reference must be optional and contract/signal based", <<>>, <<token>>, idx)

DirectCall(idx, target) ==
    Diag("direct call to other skill is not allowed without optional contract wording", <<>>, <<target>>, idx)

\* the token loop without the test `token == own_name`
token_errors_without_own_name(line, idx, own_name) ==
    LET toks == TokensOf(line) IN
    Flatten([i \in DOMAIN toks |->
        IF toks[i] \in NON_SKILL_BAGAKIT_TOKENS THEN <<>>
        ELSE IF ~line_has_coupling(line) THEN <<>>
        ELSE IF ~line_is_optional_contract(line) THEN <<CrossSkill(idx, toks[i])>>
        ELSE <<>>])

\* the token loop of scan_hard_coupling for one line
token_errors(line, idx, own_name) ==
    LET toks == TokensOf(line) IN
    Flatten([i \in DOMAIN toks |->
        IF toks[i] = own_name THEN <<>>
        ELSE IF toks[i] \in NON_SKILL_BAGAKIT_TOKENS THEN <<>>
        ELSE IF ~line_has_coupling(line) THEN <<>>
        ELSE IF ~line_is_optional_contract(line) THEN <<CrossSkill(idx, toks[i])>>
        ELSE <<>>])

\* the direct-call test of scan_hard_coupling for one line
direct_call_errors(line, idx, own_name) ==
    LET target_skill == direct_skill_match(line) IN
    IF /\ target_skill # ""
       /\ LineHas(line, ExecVerb_atoms)
       /\ target_skill # own_name
       /\ ~line_is_optional_contract(line)
    THEN <<DirectCall(idx, target_skill)>>
    ELSE <<>>

\* the scan with the optional-contract test of the token loop left out
scan_hard_coupling_without_optional(text, own_name) ==
    Flatten([idx \in DOMAIN text |->
        LET toks == TokensOf(text[idx]) IN
        Flatten([i \in DOMAIN toks |->
            IF toks[i] = own_name \/ toks[i] \in NON_SKILL_BAGAKIT_TOKENS \/ ~line_has_coupling(text[idx])
            THEN <<>> ELSE <<CrossSkill(idx, toks[i])>>])
        \o direct_call_errors(text[idx], idx, own_name)])

scan_hard_coupling(text, own_name) ==
    Flatten([idx \in DOMAIN text |->
        token_errors(text[idx], idx, own_name) \o direct_call_errors(text[idx], idx, own_name)])

DiscouragedOf(line) ==
    UNION {Range(DiscouragedTable[line[i]]) : i \in {j \in DOMAIN line : line[j] \in DOMAIN DiscouragedTable}}

scan_metadata_contract_signals(text) ==
    LET found == UNION {DiscouragedOf(text[i]) :
                          i \in {j \in DOMAIN text : ~LineHas(text[j], ANTI_PATTERN_HINTS_atoms)}}
        unique_discouraged == sorted_strings(found)
    IN     (IF unique_discouraged # <<>>
            THEN   <<Diag("metadata contract may be over-coupled: found adapter-specific keys",
                          <<>>, unique_discouraged, 0)>>
                \o Cond(~TextHas(text, HasDriverMeta_atoms) \/ ~TextHas(text, HasDriver_atoms),
                        "metadata contract should document semantic generic key + parseable meta pattern")
            ELSE <<>>)
        \o Cond(/\ TextHas(text, HasMachineReadable_atoms)
                /\ TextHas(text, HasFrontmatter_atoms)
                /\ ~TextHas(text, HasToml_atoms),
                "machine-readable frontmatter detected without TOML wording; prefer TOML frontmatter (+++) in artifacts")

\* "bash .bagakit/" in skill_text
dot_bagakit_warnings(text) ==
    Cond(\E i \in DOMAIN text : \E k \in 1..(Len(text[i]) - 1) :
             text[i][k] \in EndsBash_atoms /\ text[i][k + 1] \in StartsDotBagakit_atoms,
         "SKILL.md contains direct '.bagakit' script call; ensure this is optional and not a hard dependency")


(***************************************************************************)
(* NamingAuditor and PathLiteralScanner.  `ls` is the order in which the   *)
(* file system (and a set of paths) hands out its entries: any order.      *)
(***************************************************************************)
GENERIC_FILE_STEMS == {"helper", "helpers", "misc", "tmp", "temp", "util", "utils", "test", "tests"}

LEGACY_TERMS == {"legacy", "compat", "deprecated", "workaround", "shim", "backward", "old"}

ALLOWED_SCRIPT_EXTENSIONS == {".sh", ".py", ".js", ".ts"}

ALLOWED_REFERENCE_EXTENSIONS == {".md", ".txt", ".json", ".yaml", ".yml"}

ABSOLUTE_PATH_SCAN_EXTENSIONS == {".md", ".txt", ".json", ".yaml", ".yml"}

CharsOfAll(S) == {Chars(x) : x \in S}

\* FILE_STEM_RE.match(stem): ^[a-z0-9][a-z0-9_-]*$
FILE_STEM_RE(stem) ==
    /\ Len(stem) >= 1
    /\ stem[1] \in LowerAlnum
    /\ \A i \in 2..Len(stem) : stem[i] \in LowerAlnum \cup {"_", "-"}

\* [tok for tok in re.split(r"[-_]+", stem) if tok]
RECURSIVE SplitStem(_, _)
SplitStem(stem, cur) ==
    IF stem = <<>> THEN (IF cur = <<>> THEN <<>> ELSE <<cur>>)
    ELSE IF Head(stem) \in {"-", "_"}
    THEN (IF cur = <<>> THEN <<>> ELSE <<cur>>) \o SplitStem(Tail(stem), <<>>)
    ELSE SplitStem(Tail(stem), Append(cur, Head(stem)))

DirEntry(d) == [path |-> d, decodable |-> TRUE, lines |-> <<>>]

Under(root, q) == Len(q) > Len(root) /\ SubSeq(q, 1, Len(root)) = root

\* root.rglob("*"), in the order the file system hands the entries out
rglob(root, ls) == SelectSeq(ls, LAMBDA e : Under(root, e.path))

GenericStem(rel) == Diag("file name is too generic (not self-explanatory)", rel, <<>>, 0)

LegacyTerm(rel, bad_terms) ==
    Diag("file name contains legacy/workaround term; rewrite to final-state naming", rel, bad_terms, 0)

InvalidStem(rel) == Diag("file name must be lowercase/digits/hyphen/underscore only", rel, <<>>, 0)

UnexpectedExtension(dirname, rel) == Diag("unexpected extension under", rel, <<dirname>>, 0)

PreferHyphen(rel) == Diag("prefer hyphen-case file naming for clarity", rel, <<>>, 0)

\* the generic test applied to each token of the stem instead of the whole stem
file_errors_by_token(rel) ==
    LET stem == stem_lower(rel)
        tokens == SplitStem(stem, <<>>)
        bad_terms == sorted_strings({t \in LEGACY_TERMS : Chars(t) \in Range(tokens)})
    IN     (IF ~FILE_STEM_RE(stem) THEN <<InvalidStem(rel)>> ELSE <<>>)
        \o (IF \E k \in DOMAIN tokens : tokens[k] \in CharsOfAll(GENERIC_FILE_STEMS)
            THEN <<GenericStem(rel)>> ELSE <<>>)
        \o (IF bad_terms # <<>> THEN <<LegacyTerm(rel, bad_terms)>> ELSE <<>>)

\* the errors audit_runtime_files appends for one file
file_errors(rel) ==
    LET stem == stem_lower(rel)
        tokens == SplitStem(stem, <<>>)
        bad_terms == sorted_strings({t \in LEGACY_TERMS : Chars(t) \in Range(tokens)})
    IN     (IF ~FILE_STEM_RE(stem) THEN <<InvalidStem(rel)>> ELSE <<>>)
        \o (IF stem \in CharsOfAll(GENERIC_FILE_STEMS) THEN <<GenericStem(rel)>> ELSE <<>>)
        \o (IF bad_terms # <<>> THEN <<LegacyTerm(rel, bad_terms)>> ELSE <<>>)

\* the two warning rules tried in turn, an unexpected extension ending the audit of the name
file_warnings_first_only(dirname, allowed_ext, rel) ==
    LET suffix == suffix_lower(rel)
        fname == Chars(StemTable[FileName(rel)]) \o Chars(SuffixTable[FileName(rel)])
    IN  IF suffix # <<>> /\ suffix \notin CharsOfAll(allowed_ext)
        THEN <<UnexpectedExtension(dirname, rel)>>
        ELSE IF "_" \in Range(fname) THEN <<PreferHyphen(rel)>>
        ELSE <<>>

\* the warnings audit_runtime_files appends for one file
file_warnings(dirname, allowed_ext, rel) ==
    LET suffix == suffix_lower(rel)
        fname == Chars(StemTable[FileName(rel)]) \o Chars(SuffixTable[FileName(rel)])
    IN     (IF suffix # <<>> /\ suffix \notin CharsOfAll(allowed_ext)
            THEN <<UnexpectedExtension(dirname, rel)>> ELSE <<>>)
        \o (IF "_" \in Range(fname) THEN <<PreferHyphen(rel)>> ELSE <<>>)

RuntimeDirs ==
    << [dirname |-> "scripts", allowed_ext |-> ALLOWED_SCRIPT_EXTENSIONS],
       [dirname |-> REFERENCE_DIR_CANONICAL, allowed_ext |-> ALLOWED_REFERENCE_EXTENSIONS],
       [dirname |-> REFERENCE_DIR_LEGACY, allowed_ext |-> ALLOWED_REFERENCE_EXTENSIONS] >>

\* the files audit_runtime_files visits under one runtime directory, in order
AuditedFiles(dirname, ls) ==
    IF ~exists(<<dirname>>) THEN <<>>
    ELSE SelectSeq(sorted_entries(rglob(<<dirname>>, ls)), LAMBDA e : is_file(e.path))

audit_runtime_files(ls) ==
    [errors |->
        Flatten([d \in DOMAIN RuntimeDirs |->
            LET fs == AuditedFiles(RuntimeDirs[d].dirname, ls) IN
            Flatten([i \in DOMAIN fs |-> file_errors(fs[i].path)])]),
     warnings |->
        Flatten([d \in DOMAIN RuntimeDirs |->
            LET fs == AuditedFiles(RuntimeDirs[d].dirname, ls) IN
            Flatten([i \in DOMAIN fs |->
                file_warnings(RuntimeDirs[d].dirname, RuntimeDirs[d].allowed_ext, fs[i].path)])])]

\* add_target: path.name == "SKILL.md" or path.suffix.lower() in ABSOLUTE_PATH_SCAN_EXTENSIONS
is_target(q) ==
    FileName(q) = "SKILL.md" \/ suffix_lower(q) \in CharsOfAll(ABSOLUTE_PATH_SCAN_EXTENSIONS)

\* include[:] if include else [REFERENCE_DIR_CANONICAL, REFERENCE_DIR_LEGACY, "agents"]
scan_roots(inc) == IF inc # <<>> THEN inc ELSE <<REFERENCE_DIR_CANONICAL, REFERENCE_DIR_LEGACY, "agents">>

\* the set `targets` of scan_absolute_path_literals
scan_targets(inc) ==
    LET roots == scan_roots(inc) IN
    {SkillFile} \cup
    {f \in Files : /\ is_target(f.path)
                   /\ \E i \in DOMAIN roots :
                         \/ f.path = Parts(roots[i])
                         \/ is_dir(Parts(roots[i])) /\ Under(Parts(roots[i]), f.path)}

AbsoluteLiteral(rel, idx) == Diag("contains absolute path literal", rel, <<>>, idx)

\* ABSOLUTE_POSIX_RE.search(line) or ABSOLUTE_WINDOWS_RE.search(line)
line_has_absolute_path(line) == LineHas(line, AbsPath_atoms)

\* the errors for one target that was read
literal_errors(f) ==
    Flatten([idx \in DOMAIN f.lines |->
        IF line_has_absolute_path(f.lines[idx]) THEN <<AbsoluteLiteral(f.path, idx)>> ELSE <<>>])

\* path.relative_to(skill_dir) raises ValueError for a path that is not under skill_dir
RelativeToRaises(q) == q[1] = "/"

\* `for path in sorted(targets)`: errors so far, and whether an exception ended the loop
RECURSIVE ScanLoop(_, _)
ScanLoop(ts, acc) ==
    IF ts = <<>> THEN [status |-> "ok", errors |-> acc]
    ELSE LET f == Head(ts) IN
         IF ~f.decodable THEN ScanLoop(Tail(ts), acc)
         ELSE IF RelativeToRaises(f.path) THEN [status |-> "raise", errors |-> acc]
         ELSE ScanLoop(Tail(ts), acc \o literal_errors(f))

scan_absolute_path_literals(inc, ls) ==
    ScanLoop(sorted_entries(SelectSeq(ls, LAMBDA e : e \in scan_targets(inc))), <<>>)

\* the paths scan_absolute_path_literals asks the file system about: `path.exists()`
scan_probes(inc) == {Parts(scan_roots(inc)[i]) : i \in DOMAIN scan_roots(inc)}


(***************************************************************************)
(* The bundles validate is run on.  A descriptor is a header, the body of  *)
(* a bundle that passes every rule, and lines added after it.              *)
(***************************************************************************)

\* the body of a descriptor that passes validate
GoodBody ==
    << <<"# Foo Skill">>,
       <<"Standalone-first design;", "optional contract exchange.">>,
       <<"## When to Use">>,
       <<"-", "validating a bundle">>,
       <<"-", "preparing a release">>,
       <<"## When NOT to Use">>,
       <<"-", "editing prose">>,
       <<"-", "publishing">>,
       <<"## Workflow">>,
       <<"-", "check then report">>,
       <<"## Fallback Path">>,
       <<"-", "ask the user">>,
       <<"## Output Routes and Default Mode">>,
       <<"-", "default:", "local action handoff with type note">>,
       <<"-", "optional adapter;", "memory summary">>,
       <<"## Archive Gate">>,
       <<"-", "archive destination path with action and memory;", "completion gate">>,
       <<"[[BAGAKIT]]">>,
       <<"-", "foo:", "status=done;", "next=idle">> >>

\* lines that name bundles, call scripts or hold paths and keys
CouplingLines ==
    << <<"bagakit-foo", "must", "run", "first">>,
       <<"bagakit-foo", "must", "invoke", "bagakit-bar">>,
       <<"bagakit-bar", "is", "related">>,
       <<"optional:", "bagakit-bar", "must", "provide", "schema">>,
       <<"requires", "bagakit-series", "profile">>,
       <<"bash", "/skills/other-tool/run.sh">>,
       <<"sh", "/skills/bagakit-foo/a.sh", "/skills/other-tool/b.sh">>,
       <<"bash", "/skills/bagakit-bar/run.sh">>,
       <<"see", "/home/alice/project/file.md">>,
       <<"see", "./relative/file.md">>,
       <<"see", "./tmp/build/out.md">>,
       <<"C:\\Users\\bob\\file.txt", "and", "/tmp/x/y">>,
       <<"driver_openspec:", "yes">>,
       <<"avoid", "driver_longrun">>,
       <<"bash", ".bagakit/run.sh">>,
       <<"Bagakit-Bar", "MUST", "run">>,
       <<"Bagakit-Foo", "must", "run">> >>

\* headings, bullets and wording that the section and contract rules read
OtherLines ==
    << <<"# Appendix">>,
       <<"## Notes">>,
       <<"### Workflow">>,
       <<"*", "starred item">>,
       <<"plain words">>,
       <<"author:", "someone">>,
       <<"machine-readable", "frontmatter">>,
       <<"toml", "driver_meta">>,
       <<"only when no", "driver is detected">>,
       <<"openspec", "route">>,
       <<"capability", "rule">>,
       <<"## Output Contract">>,
       <<"## Completion Handoff">>,
       <<"## when not to use">>,
       <<"## When No Clear Fit (fallback)">>,
       <<"-", "no adapter;", "no memory">>,
       <<"-", "standalone-only;", "none">>,
       <<>> >>

\* values of the header key `name`
NameValues ==
    {"bagakit-foo", "foo", "a", "Foo", "-foo", "foo-", "foo_bar", "bagakit-Foo", "a--b",
     "\"bagakit-foo\"", "aaaaaaaaaaaaaaaaaaaaaaaaaaaaaaaaaaaaaaaaaaaaaaaaaaaaaaaaaaaaaaaa",
     "aaaaaaaaaaaaaaaaaaaaaaaaaaaaaaaaaaaaaaaaaaaaaaaaaaaaaaaaaaaaaaaaa",
     "aaaaaaaaaaaaaaaaaaaaaaaaaaaaaaaaaaaaaaaaaaaaaaaaaaaaaaaaaaaaaaa-"}

\* values of the header key `description`
DescriptionValues ==
    {"Use when validating skill bundles before a release.", "TODO: replace me", "Validates bundles.",
     "Use when needed.", "\"Use when needed.\""}

\* the strings the array `include` of the manifest can hold
Entry ==
    {"SKILL.md", "README.md", "scripts", "agents", "reference", "references", "../outside.md",
     "/tmp/outside.md", "notes.md", "..hidden", "reference/start-here.md"}

\* the files a bundle, or the directories around it, can hold
FileVocab ==
    {StartHere, TemplateNote, LegacyHelper, Helper, OldShim, AbsNotes, BinaryNotes, GuideUpper, NotesV2,
     DataBin, RunChecks, ToolExe, MyUtils, LegacyGuide, OpenaiYaml, Readme, OutsideSibling, OutsideAbs}

(***************************************************************************)
(* cmd_validate                                                            *)
(***************************************************************************)
Printed(stream, tag, ds) == [i \in DOMAIN ds |-> [stream |-> stream, tag |-> tag, d |-> ds[i]]]

\* an uncaught exception: the interpreter prints the traceback and exits with status 1
Traceback(exc) == <<[stream |-> "stderr", tag |-> "traceback", d |-> D0(exc)]>>

MissingFile(q) == Diag("missing file", q, <<>>, 0)

\* the required files, and the only early return
CheckRequiredFiles ==
    /\ pc = "check_files"
    /\ LET missing ==    (IF ~exists(SkillPath) THEN <<MissingFile(SkillPath)>> ELSE <<>>)
                      \o (IF ~exists(PayloadPath) THEN <<MissingFile(PayloadPath)>> ELSE <<>>)
       IN  /\ errors' = missing
           /\ IF missing # <<>>
              THEN /\ out' = out \o Printed("stderr", "error", missing)
                   /\ exit' = 1
                   /\ pc' = "done"
              ELSE /\ pc' = "read_skill"
                   /\ UNCHANGED <<out, exit>>
    /\ probed' = probed \cup {SkillPath, PayloadPath}
    /\ UNCHANGED <<bundle, warnings, skill_text, name, include, ran, run, prev>>

\* skill_text = skill_md.read_text(encoding="utf-8")
ReadDescriptor ==
    /\ pc = "read_skill"
    /\ IF bundle.skill.decodable
       THEN /\ skill_text' = bundle.skill.lines
            /\ pc' = "header"
            /\ UNCHANGED <<out, exit>>
       ELSE /\ out' = out \o Traceback("UnicodeDecodeError")
            /\ exit' = 1
            /\ pc' = "crashed"
            /\ UNCHANGED skill_text
    /\ UNCHANGED <<bundle, errors, warnings, name, include, ran, probed, run, prev>>

\* parse_frontmatter and the checks of the header
CheckHeader ==
    /\ pc = "header"
    /\ LET fm == parse_frontmatter(skill_text)
           description == Get(fm.kv, "description")
       IN  /\ name' = Get(fm.kv, "name")
           /\ errors' = errors \o fm.errors \o unknown_keys_errors(fm.kv)
                               \o name_errors(Get(fm.kv, "name")) \o description_errors(description)
           /\ warnings' = warnings \o description_warnings(description)
    /\ ran' = ran \cup {"header"}
    /\ pc' = "payload"
    /\ UNCHANGED <<bundle, skill_text, include, out, exit, probed, run, prev>>

\* load_payload and the type check of `include`
LoadPayload ==
    /\ pc = "payload"
    /\ LET loaded == load_payload(bundle.payload) IN
       IF loaded.status = "raise"
       THEN /\ out' = out \o Traceback(loaded.exc)
            /\ exit' = 1
            /\ pc' = "crashed"
            /\ UNCHANGED <<errors, include, ran>>
       ELSE /\ errors' = errors \o loaded.errors \o include_type_errors(bundle.payload)
            /\ include' = include_of(bundle.payload)
            /\ ran' = ran \cup {"manifest"}
            /\ pc' = "include_rules"
            /\ UNCHANGED <<out, exit>>
    /\ UNCHANGED <<bundle, warnings, skill_text, name, probed, run, prev>>

\* the block `if include:`
CheckInclude ==
    /\ pc = "include_rules"
    /\ errors' = errors \o include_errors(include)
    /\ warnings' = warnings \o include_warnings(include)
    /\ probed' = IF include = <<>> THEN probed
                 ELSE probed \cup path_probes(include)
                             \cup {<<"scripts">>, <<"agents">>, <<REFERENCE_DIR_CANONICAL>>,
                                   <<REFERENCE_DIR_LEGACY>>}
    /\ ran' = ran \cup {"include"}
    /\ pc' = "structure"
    /\ UNCHANGED <<bundle, skill_text, name, include, out, exit, run, prev>>

\* the structural and section rules
CheckStructure ==
    /\ pc = "structure"
    /\ errors' = errors \o structure_errors(skill_text, name)
    /\ warnings' = warnings \o structure_warnings(skill_text, name)
    /\ ran' = ran \cup {"structure"}
    /\ pc' = "coupling"
    /\ UNCHANGED <<bundle, skill_text, name, include, out, exit, probed, run, prev>>

\* errors.extend(scan_hard_coupling(skill_text, name or ""))
ScanCoupling ==
    /\ pc = "coupling"
    /\ errors' = errors \o scan_hard_coupling(skill_text, name)
    /\ ran' = ran \cup {"coupling"}
    /\ pc' = "contract"
    /\ UNCHANGED <<bundle, warnings, skill_text, name, include, out, exit, probed, run, prev>>

\* warnings.extend(scan_metadata_contract_signals(skill_text))
ScanContract ==
    /\ pc = "contract"
    /\ warnings' = warnings \o scan_metadata_contract_signals(skill_text)
    /\ ran' = ran \cup {"contract"}
    /\ pc' = "naming"
    /\ UNCHANGED <<bundle, errors, skill_text, name, include, out, exit, probed, run, prev>>

RECURSIVE Orders(_)
Orders(S) ==
    IF S = {} THEN {<<>>}
    ELSE UNION {{<<x>> \o rest : rest \in Orders(S \ {x})} : x \in S}

\* the orders in which rglob can hand out the entries below the bundle root: the files in
\* any order (directories first; is_file() drops them before anything depends on their place)
Enumerations ==
    LET dirs == CHOOSE ds \in Orders({DirEntry(d) : d \in bundle.dirs}) : TRUE
    IN  {dirs \o fs : fs \in Orders(bundle.files)}

\* the orders in which the set `targets` can be iterated
TargetOrders == Orders(scan_targets(include))

\* audit_runtime_files(skill_dir)
AuditRuntime ==
    /\ pc = "naming"
    /\ \E ls \in Enumerations :
          /\ errors' = errors \o audit_runtime_files(ls).errors
          /\ warnings' = warnings \o audit_runtime_files(ls).warnings
    /\ probed' = probed \cup {<<RuntimeDirs[d].dirname>> : d \in DOMAIN RuntimeDirs}
    /\ ran' = ran \cup {"naming"}
    /\ pc' = "paths"
    /\ UNCHANGED <<bundle, skill_text, name, include, out, exit, run, prev>>

\* scan_absolute_path_literals(skill_dir, include), then the '.bagakit' warning
ScanPaths ==
    /\ pc = "paths"
    /\ \E ls \in TargetOrders :
          LET scan == scan_absolute_path_literals(include, ls) IN
          IF scan.status = "raise"
          THEN /\ out' = out \o Traceback("ValueError")
               /\ exit' = 1
               /\ pc' = "crashed"
               /\ UNCHANGED <<errors, warnings>>
          ELSE /\ errors' = errors \o scan.errors
               /\ warnings' = warnings \o dot_bagakit_warnings(skill_text)
               /\ pc' = "report"
               /\ UNCHANGED <<out, exit>>
    /\ probed' = probed \cup scan_probes(include)
    /\ ran' = ran \cup {"paths"}
    /\ UNCHANGED <<bundle, skill_text, name, include, run, prev>>

Ok == [stream |-> "stdout", tag |-> "ok", d |-> D0("ok: skill validation passed")]

WarnCount(n) == [stream |-> "stdout", tag |-> "warn_count", d |-> Diag("warn_count", <<>>, <<>>, n)]

\* what the last block of cmd_validate prints
report(ws, es) ==
    Printed("stdout", "warn", ws)
    \o (IF es # <<>> THEN Printed("stderr", "error", es)
        ELSE <<Ok>> \o (IF ws # <<>> THEN <<WarnCount(Len(ws))>> ELSE <<>>))

\* the status it returns
status(ws, es) == IF es # <<>> THEN 1 ELSE 0

Report ==
    /\ pc = "report"
    /\ out' = out \o report(warnings, errors)
    /\ exit' = status(warnings, errors)
    /\ pc' = "done"
    /\ UNCHANGED <<bundle, errors, warnings, skill_text, name, include, ran, probed, run, prev>>

Finished == pc \in {"done", "crashed"}

NoResult == [out |-> <<>>, exit |-> -1, errors |-> <<>>, warnings |-> <<>>]

\* validate is run again on the unchanged bundle
Rerun ==
    /\ Finished
    /\ run = 1
    /\ prev' = [out |-> out, exit |-> exit, errors |-> errors, warnings |-> warnings]
    /\ run' = 2
    /\ pc' = "check_files"
    /\ errors' = <<>>
    /\ warnings' = <<>>
    /\ skill_text' = <<>>
    /\ name' = ""
    /\ include' = <<>>
    /\ out' = <<>>
    /\ exit' = -1
    /\ ran' = {}
    /\ probed' = {}
    /\ UNCHANGED bundle

DescriptionOk == "Use when validating skill bundles before a release."

Header(n, d) == <<Delimiter, <<"name:", n>>, <<"description:", d>>, Delimiter>>

GoodHeader == Header("bagakit-foo", DescriptionOk)

\* headers whose shape, not whose values, is at fault
OddHeaders ==
    { <<Delimiter, <<"description:", DescriptionOk>>, Delimiter>>,
      <<Delimiter, <<"name:">>, <<"description:", DescriptionOk>>, Delimiter>>,
      <<Delimiter, <<"name:", "bagakit-foo">>, Delimiter>>,
      <<Delimiter, <<"name:", "bagakit-foo">>, <<"description:", DescriptionOk>>,
        <<"author:", "someone">>, Delimiter>>,
      <<Delimiter, <<"name:", "bagakit-foo">>, <<"plain words">>, <<>>,
        <<"description:", DescriptionOk>>, Delimiter>>,
      <<Delimiter, <<"name:", "foo">>, <<"name:", "Foo">>, <<"description:", DescriptionOk>>,
        Delimiter>>,
      <<Delimiter, <<"name:", "bagakit-foo">>, <<"description:", DescriptionOk>>>>,
      <<<<"name:", "bagakit-foo">>, <<"description:", DescriptionOk>>, Delimiter>>,
      <<>> }

Headers == {Header(n, d) : n \in NameValues, d \in DescriptionValues} \cup OddHeaders

MaxExtraLines == 1

MaxInclude == 2

MaxFiles == 2

SeqsUpTo(S, n) == UNION {[1..k -> S] : k \in 0..n}

Document(lines) == [decodable |-> TRUE, lines |-> lines]

GoodDocument == Document(GoodHeader \o GoodBody)

\* {"include": items}
IncludeOf(items) == [kind |-> "object", include_kind |-> "strings", items |-> items]

GoodPayload == IncludeOf(<<"SKILL.md">>)

\* manifests that do not hold an object with an array of strings under `include`
OddPayloads ==
    {[kind |-> k, include_kind |-> "strings", items |-> <<"SKILL.md">>] :
        k \in {"not_object", "invalid_json", "undecodable", "unreadable"}}
    \cup {[kind |-> "object", include_kind |-> t, items |-> <<>>] :
        t \in {"absent", "not_array", "not_strings"}}

Inside(f) == f.path[1] \notin {"..", "/"}

\* the directories that hold the files `fs`
ParentsOf(fs) == UNION {{SubSeq(f.path, 1, k) : k \in 1..(Len(f.path) - 1)} : f \in {g \in fs : Inside(g)}}

Bundle(doc, payload, fs, empty_dirs) ==
    [skill_exists |-> TRUE, skill |-> doc, payload_exists |-> TRUE, payload |-> payload,
     files |-> fs, dirs |-> ParentsOf(fs) \cup empty_dirs]

GoodBundle == Bundle(GoodDocument, GoodPayload, {}, {})

\* the required files: present or not, readable as text or not
EnvironmentBundles ==
    {[GoodBundle EXCEPT !.skill_exists = se, !.payload_exists = pe, !.payload = p,
                        !.skill = [decodable |-> sd, lines |-> h \o GoodBody]] :
        se \in BOOLEAN, pe \in BOOLEAN, sd \in BOOLEAN, p \in OddPayloads \cup {GoodPayload},
        h \in {GoodHeader, Header("bagakit-foo", "Use when needed.")}}

HeaderBundles == {Bundle(Document(h \o GoodBody), GoodPayload, {}, {}) : h \in Headers}

\* a descriptor with lines added, under each of the names those lines mention
ContentBundles ==
    {Bundle(Document(Header(n, DescriptionOk) \o GoodBody \o extra), GoodPayload, {}, {}) :
        n \in {"bagakit-foo", "bagakit-Foo", "foo"},
        extra \in SeqsUpTo(Range(CouplingLines), MaxExtraLines)}

\* a descriptor with one more heading, bullet or sentence
WordingBundles ==
    {Bundle(Document(GoodHeader \o GoodBody \o <<extra>>), GoodPayload, {}, {}) :
        extra \in Range(OtherLines)}

\* a descriptor with one line of the body left out
ThinnedBundles ==
    {Bundle(Document(GoodHeader \o SubSeq(GoodBody, 1, i - 1) \o SubSeq(GoodBody, i + 1, Len(GoodBody))),
            GoodPayload, {}, {}) : i \in DOMAIN GoodBody}

\* the files around the manifest: none; some inside the bundle; some outside it
IncludeFileSets ==
    { {}, {StartHere, OutsideSibling}, {OutsideAbs, RunChecks} }

ManifestBundles ==
    {Bundle(GoodDocument, IncludeOf(items), fs, IF fs = {} THEN {} ELSE {<<"agents">>}) :
        items \in SeqsUpTo(Entry, MaxInclude), fs \in IncludeFileSets}

FileSets == {fs \in SUBSET FileVocab : Cardinality(fs) <= MaxFiles}

RuntimeBundles ==
    {Bundle(GoodDocument, IncludeOf(items), fs, {}) :
        items \in {<<>>, <<"SKILL.md", "scripts", "reference">>}, fs \in FileSets}

\* a header and a manifest that both fail to load, around a bundle whose descriptor, file
\* names and reference text give the later rules something to report
ParseFailureBundles ==
    {Bundle(Document(h \o GoodBody \o <<CouplingLines[2]>>), p, {AbsNotes, LegacyHelper}, {}) :
        h \in OddHeaders, p \in OddPayloads}

\* files whose names break several naming rules at once
NamingBundles ==
    {Bundle(GoodDocument, GoodPayload, fs, {}) : fs \in SUBSET {OldTmpBin, HelperExe, OldShim}}

Bundles ==
    EnvironmentBundles \cup HeaderBundles \cup ContentBundles \cup WordingBundles
    \cup ThinnedBundles
    \cup ManifestBundles \cup RuntimeBundles \cup ParseFailureBundles \cup NamingBundles

Init ==
    /\ bundle \in Bundles
    /\ pc = "check_files"
    /\ errors = <<>>
    /\ warnings = <<>>
    /\ skill_text = <<>>
    /\ name = ""
    /\ include = <<>>
    /\ out = <<>>
    /\ exit = -1
    /\ ran = {}
    /\ probed = {}
    /\ run = 1
    /\ prev = NoResult

Next ==
    \/ CheckRequiredFiles
    \/ ReadDescriptor
    \/ CheckHeader
    \/ LoadPayload
    \/ CheckInclude
    \/ CheckStructure
    \/ ScanCoupling
    \/ ScanContract
    \/ AuditRuntime
    \/ ScanPaths
    \/ Report
    \/ Rerun

Spec == Init /\ [][Next]_vars

(***************************************************************************)
(* Properties of validate.                                                 *)
(***************************************************************************)
RequiredFilesExist == bundle.skill_exists /\ bundle.payload_exists

\* the printed lines of one kind, in the order printed
Lines(tag) == SelectSeq(out, LAMBDA o : o.tag = tag)

DiagsOf(printed) == [i \in DOMAIN printed |-> printed[i].d]

RuleGroups == {"header", "manifest", "include", "structure", "coupling", "contract", "naming", "paths"}

\* C1: for every bundle that holds both SKILL.md and SKILL_PAYLOAD.json, the exit status of
\* validate is 0, with the 'ok' line printed, if and only if the accumulated error list is
\* empty, and 1 otherwise; the number of warnings plays no part.
ExitStatusIffNoErrors ==
    (Finished /\ RequiredFilesExist) =>
        /\ exit = (IF errors = <<>> THEN 0 ELSE 1)
        /\ (errors = <<>>) <=> (Ok \in Range(out))

\* C2: when SKILL.md or SKILL_PAYLOAD.json is missing, validate reports one 'missing file'
\* error per missing file, exits with 1 and evaluates no other rule and prints no warning;
\* in every other run all the rule groups are evaluated before validate stops.
FailFastOnlyOnMissingFiles ==
    Finished =>
        IF ~RequiredFilesExist
        THEN /\ errors = (IF bundle.skill_exists THEN <<>> ELSE <<MissingFile(SkillPath)>>)
                         \o (IF bundle.payload_exists THEN <<>> ELSE <<MissingFile(PayloadPath)>>)
             /\ out = Printed("stderr", "error", errors)
             /\ exit = 1
             /\ ran = {}
             /\ warnings = <<>>
        ELSE ran = RuleGroups

\* C3: no 'warn:' line is printed after an 'error:' line, and when a run has ended every
\* collected warning has been printed, also when the run ends with errors.
WarningsBeforeErrors ==
    /\ \A i, j \in DOMAIN out : (out[i].tag = "error" /\ out[j].tag = "warn") => j < i
    /\ Finished => DiagsOf(Lines("warn")) = warnings

\* C4: an include entry with a '..' segment or a leading '/' gets the 'must stay inside'
\* error and no existence check on disk (so no 'missing on disk' error); every other
\* entry gets the existence check.
EscapingEntriesNotProbed ==
    \A i \in DOMAIN include :
        IF Escapes(include[i])
        THEN /\ Parts(include[i]) \notin probed
             /\ "include" \in ran =>
                   /\ StayInside(include[i]) \in Range(errors)
                   /\ MissingOnDisk(include[i]) \notin Range(errors)
        ELSE "include" \in ran => Parts(include[i]) \in probed

\* C5: a well-typed include without 'SKILL.md', the empty array included, produces the
\* 'include must contain SKILL.md' error and the run fails; a well-typed include with
\* 'README.md', or with a repeated entry, produces the corresponding error.
IncludeInvariantsEnforced ==
    (pc = "done" /\ RequiredFilesExist /\ bundle.payload.kind = "object"
                 /\ IncludeWellTyped(bundle.payload)) =>
        LET items == bundle.payload.items
            reported == Range(DiagsOf(Lines("error")))
        IN  /\ "SKILL.md" \notin Range(items) => (MustContainSkill \in reported /\ exit = 1)
            /\ "README.md" \in Range(items) => (MustNotContainReadme \in reported /\ exit = 1)
            /\ (\E i, j \in DOMAIN items : i # j /\ items[i] = items[j]) =>
                   (DuplicateItems \in reported /\ exit = 1)

\* the values of `name` that match ^[a-z0-9](?:[a-z0-9-]{0,62}[a-z0-9])?$
MatchingNames ==
    {"bagakit-foo", "foo", "a", "a--b",
     "aaaaaaaaaaaaaaaaaaaaaaaaaaaaaaaaaaaaaaaaaaaaaaaaaaaaaaaaaaaaaaaa"}

NameErrors == SelectSeq(errors, LAMBDA d : d \in {MissingName, InvalidName})

\* C6: a `name` that does not match the pattern (an empty or absent one included) yields
\* exactly one name error, a `name` that matches yields none, and the checks of the header
\* end without an exception: validate goes on to the manifest.
NameYieldsOneError ==
    /\ []("header" \in ran => Len(NameErrors) = (IF name \in MatchingNames THEN 0 ELSE 1))
    /\ [][pc = "header" => (pc' = "payload" /\ exit' = -1)]_vars

\* a name of 65 characters, and one that ends with a hyphen, each reported once
NameReported ==
    /\ pc = "done"
    /\ name \notin MatchingNames
    /\ name # ""
    /\ Len(Chars(name)) >= 64
    /\ NameErrors = <<InvalidName>>

LegacyHelperPath == <<REFERENCE_DIR_CANONICAL, "legacy-helper.md">>

\* the errors audit_runtime_files reports for one file
NamingErrorsFor(rel) == SelectSeq(errors, LAMBDA d : d.arg = rel /\ d.line = 0)

\* C7 as stated: reference/legacy-helper.md yields two errors for the one file, a
\* generic-stem error and a legacy-term error.
LegacyHelperTwoErrors ==
    ("naming" \in ran /\ is_file(LegacyHelperPath)) =>
        /\ Len(NamingErrorsFor(LegacyHelperPath)) = 2
        /\ GenericStem(LegacyHelperPath) \in Range(errors)
        /\ LegacyTerm(LegacyHelperPath, <<"legacy">>) \in Range(errors)

\* C7 amended: once the naming audit has run, reference/legacy-helper.md has exactly one
\* error, the legacy-term error for the term 'legacy'; it has no generic-stem error.
LegacyHelperOneError ==
    ("naming" \in ran /\ is_file(LegacyHelperPath)) =>
        NamingErrorsFor(LegacyHelperPath) = <<LegacyTerm(LegacyHelperPath, <<"legacy">>)>>

LegacyHelperAudited ==
    /\ pc = "done"
    /\ is_file(LegacyHelperPath)
    /\ LegacyTerm(LegacyHelperPath, <<"legacy">>) \in Range(DiagsOf(Lines("error")))
    /\ GenericStem(LegacyHelperPath) \notin Range(errors)

\* C8: a second run of validate on the unchanged bundle prints the same lines, collects
\* the same ordered warnings and errors and ends with the same exit status as the first,
\* whatever order the directory entries and the scan targets are handed out in.
Deterministic ==
    (run = 2 /\ Finished) =>
        /\ out = prev.out
        /\ errors = prev.errors
        /\ warnings = prev.warnings
        /\ exit = prev.exit

\* a second run over two files that are both reported
TwoFilesReportedTwice ==
    /\ run = 2
    /\ pc = "done"
    /\ \E f, g \in bundle.files :
          /\ f # g
          /\ NamingErrorsFor(f.path) # <<>>
          /\ NamingErrorsFor(g.path) # <<>>

CouplingMessages == {CrossSkill(0, "").msg, DirectCall(0, "").msg}

\* the lines scan_hard_coupling flagged
FlaggedLines == {errors[i].line : i \in {j \in DOMAIN errors : errors[j].msg \in CouplingMessages}}

\* C9 as stated: a line that mentions the bundle's own name is never flagged by the
\* coupling scanner.
OwnNameLineNeverFlagged ==
    "coupling" \in ran =>
        \A idx \in DOMAIN skill_text :
            name \in Range(TokensOf(skill_text[idx])) => idx \notin FlaggedLines

\* C9 amended: the coupling scanner never flags the bundle's own name; a line whose
\* reserved-prefixed tokens are the own name (or exempt tokens) and whose /skills/ target,
\* if any, is the own name is never flagged, whatever verbs it holds.
OwnNameNeverFlagged ==
    "coupling" \in ran =>
        /\ \A i \in DOMAIN errors :
              errors[i].msg \in CouplingMessages => errors[i].extra # <<name>>
        /\ \A idx \in DOMAIN skill_text :
              (/\ name \in Range(TokensOf(skill_text[idx]))
               /\ Range(TokensOf(skill_text[idx])) \subseteq {name} \cup NON_SKILL_BAGAKIT_TOKENS
               /\ direct_skill_match(skill_text[idx]) \in {"", name})
              => idx \notin FlaggedLines

\* a line with the own name, a coupling verb and no optional wording, left alone
OwnNameLineLeftAlone ==
    /\ pc = "done"
    /\ \E idx \in DOMAIN skill_text :
          /\ name \in Range(TokensOf(skill_text[idx]))
          /\ line_has_coupling(skill_text[idx])
          /\ ~line_is_optional_contract(skill_text[idx])
          /\ idx \notin FlaggedLines

\* C10: no input makes validate end with an uncaught exception: a manifest that is not
\* JSON, cannot be read or does not decode, and a descriptor that does not decode, each
\* become a diagnostic and a normal exit status; a scanned file that does not decode is
\* skipped by the path-literal scan without an error.
MalformedInputsBecomeDiagnostics ==
    /\ pc # "crashed"
    /\ (pc = "done" /\ RequiredFilesExist
          /\ (~bundle.skill.decodable
              \/ bundle.payload.kind \in {"invalid_json", "undecodable", "unreadable"}))
       => (exit = 1 /\ Lines("error") # <<>>)
    /\ pc = "done" =>
          \A f \in bundle.files :
              ~f.decodable => \A i \in DOMAIN errors : ~(errors[i].arg = f.path /\ errors[i].line > 0)

\* the header of the descriptor has no opening or no closing delimiter
DelimiterFailure(text) == Len(text) < 3 \/ text[1] # Delimiter \/ IndexOfClose(text) = 0

\* the diagnostics of a header that fails to parse or holds an unsupported key
HeaderFailures(text) == parse_frontmatter(text).errors \o unknown_keys_errors(parse_frontmatter(text).kv)

\* the manifest is not JSON, not an object, or its `include` is not an array of strings
ManifestFailed(payload) ==
    \/ payload.kind \in {"invalid_json", "not_object"}
    \/ payload.kind = "object" /\ ~IncludeWellTyped(payload)

ManifestFailures(payload) == load_payload(payload).errors \o include_type_errors(payload)

SectionHeadings == {HeadingWhenToUse, HeadingWhenNotToUse, HeadingFallback, HeadingOutput, HeadingArchive}

\* a line that is a top-level heading: '# ' and a title
IsH1(line) == line # <<>> /\ line[1] \in {"# Foo Skill", "# Appendix"}

\* the section a heading opens: the lines after the first matching heading up to, and not
\* including, the next heading of the same or a higher level
SectionUpToNextHeading(text, heading) ==
    LET h == FirstIndex(text, LAMBDA l : IsHeading(l, heading), 1)
        n == FirstIndex(text, LAMBDA l : IsH2(l) \/ IsH1(l), h + 1)
    IN  SubSeq(text, h + 1, IF n = 0 THEN Len(text) ELSE n - 1)

\* C12: section_block returns None exactly when no heading matches the pattern, and
\* otherwise the text after the first matching heading up to, and not including, the next
\* heading of the same or a higher level ('## ' or '# '); section_has_bullets is true
\* exactly when that block holds at least min_count list-marker lines.
SectionEndsAtNextHeading ==
    "structure" \in ran =>
        \A heading \in SectionHeadings :
            LET block == section_block(skill_text, heading) IN
            /\ block.found <=> \E i \in DOMAIN skill_text : IsHeading(skill_text[i], heading)
            /\ block.found => block.lines = SectionUpToNextHeading(skill_text, heading)
            /\ \A min_count \in 1..2 :
                  section_has_bullets(skill_text, heading, min_count) <=>
                      /\ block.found
                      /\ Cardinality({i \in DOMAIN block.lines : IsBullet(block.lines[i])}) >= min_count

\* the runtime directory a file lies under, with its allow-list
RuntimeDirOf(f) == CHOOSE d \in Range(RuntimeDirs) : f.path[1] = d.dirname

\* the files audit_runtime_files is to visit: those under a runtime directory
RuntimeFiles == {f \in bundle.files : \E d \in Range(RuntimeDirs) : f.path[1] = d.dirname /\ Len(f.path) >= 2}

\* how often a diagnostic was collected
Count(ds, d) == Cardinality({i \in DOMAIN ds : ds[i] = d})

\* the legacy terms among the tokens of a file's stem, sorted
BadTerms(rel) ==
    sorted_strings({t \in LEGACY_TERMS : Chars(t) \in Range(SplitStem(stem_lower(rel), <<>>))})

\* C13: for every file under an existing runtime directory, each of the five naming rules
\* yields one diagnostic when the file breaks that rule and none when it does not,
\* whatever the other four rules find: an error for a stem outside the character class, an
\* error for a generic stem, an error for legacy terms among the stem's tokens, a warning
\* for an extension outside the directory's allow-list, a warning for an underscore.
NamingRulesIndependent ==
    "naming" \in ran =>
        \A f \in RuntimeFiles :
            LET rel == f.path
                dir == RuntimeDirOf(f)
                one(c) == IF c THEN 1 ELSE 0
            IN  /\ Count(errors, InvalidStem(rel)) = one(~FILE_STEM_RE(stem_lower(rel)))
                /\ Count(errors, GenericStem(rel)) = one(stem_lower(rel) \in CharsOfAll(GENERIC_FILE_STEMS))
                /\ Count(errors, LegacyTerm(rel, BadTerms(rel))) = one(BadTerms(rel) # <<>>)
                /\ Len(NamingErrorsFor(rel)) =
                      Count(errors, InvalidStem(rel)) + Count(errors, GenericStem(rel))
                      + Count(errors, LegacyTerm(rel, BadTerms(rel)))
                /\ Count(warnings, UnexpectedExtension(dir.dirname, rel)) =
                      one(suffix_lower(rel) # <<>> /\ suffix_lower(rel) \notin CharsOfAll(dir.allowed_ext))
                /\ Count(warnings, PreferHyphen(rel)) = one("_" \in Range(Chars(FileName(rel))))
                /\ Len(SelectSeq(warnings, LAMBDA d : d.arg = rel)) =
                      Count(warnings, UnexpectedExtension(dir.dirname, rel)) + Count(warnings, PreferHyphen(rel))

\* one file that breaks four rules, each reported once: stem class, legacy term,
\* extension and underscore
FourRulesBrokenByOneFile ==
    /\ pc = "done"
    /\ \E f \in RuntimeFiles :
          /\ InvalidStem(f.path) \in Range(DiagsOf(Lines("error")))
          /\ LegacyTerm(f.path, <<"old">>) \in Range(DiagsOf(Lines("error")))
          /\ UnexpectedExtension("reference", f.path) \in Range(DiagsOf(Lines("warn")))
          /\ PreferHyphen(f.path) \in Range(DiagsOf(Lines("warn")))

\* the cross-skill-reference errors collected so far
CrossSkillErrors == SelectSeq(errors, LAMBDA d : d.msg = CrossSkill(0, "").msg)

\* C14: a cross-skill-reference error is collected for a token of a descriptor line only
\* if the token is not the bundle's own name, is not one of the exempt non-bundle tokens,
\* and the line carries a coupling signal and no optional-contract signal; a line without
\* a coupling signal, or with an optional-contract signal, has no such error.
CrossSkillOnlyWhenHardCoupled ==
    "coupling" \in ran =>
        /\ \A i \in DOMAIN CrossSkillErrors :
              LET idx == CrossSkillErrors[i].line
                  token == CrossSkillErrors[i].extra[1]
              IN  /\ idx \in DOMAIN skill_text
                  /\ token \in Range(TokensOf(skill_text[idx]))
                  /\ token # name
                  /\ token \notin NON_SKILL_BAGAKIT_TOKENS
                  /\ line_has_coupling(skill_text[idx])
                  /\ ~line_is_optional_contract(skill_text[idx])
        /\ \A idx \in DOMAIN skill_text :
              (~line_has_coupling(skill_text[idx]) \/ line_is_optional_contract(skill_text[idx]))
              => \A i \in DOMAIN CrossSkillErrors : CrossSkillErrors[i].line # idx

\* another bundle's name on a line with a coupling verb and no optional wording, reported
OtherBundleFlagged ==
    /\ pc = "done"
    /\ name = "bagakit-foo"
    /\ \E idx \in DOMAIN skill_text :
          /\ CrossSkill(idx, "bagakit-bar") \in Range(DiagsOf(Lines("error")))
          /\ line_has_coupling(skill_text[idx])
          /\ ~line_is_optional_contract(skill_text[idx])

\* the bundles whose runtime path ('/skills/<name>') a line names, at any position
SkillTargetsOf(line) == {SkillTargetTable[line[i]] : i \in {j \in DOMAIN line : line[j] \in DOMAIN SkillTargetTable}}

\* the lines reported as a direct call to another skill
DirectCallLines == {errors[i].line : i \in {j \in DOMAIN errors : errors[j].msg = DirectCall(0, "").msg}}

\* C15: every descriptor line that names another bundle's runtime path, at any position,
\* and holds an execution-verb keyword is reported as a direct hard call, unless it carries
\* an optional-contract signal, in which case it is not reported.
DirectCallAlwaysFlagged ==
    "coupling" \in ran =>
        \A idx \in DOMAIN skill_text :
            LET line == skill_text[idx] IN
            /\ (/\ SkillTargetsOf(line) \ {name} # {}
                /\ LineHas(line, ExecVerb_atoms)
                /\ ~line_is_optional_contract(line)) => idx \in DirectCallLines
            /\ line_is_optional_contract(line) => idx \notin DirectCallLines

\* the atoms that hold a POSIX absolute path under a conventional system prefix or a
\* Windows drive-letter path
RootedPath_atoms == {"/home/alice/project/file.md", "C:\\Users\\bob\\file.txt", "/tmp/x/y"}

\* the targets of the path-literal scan that can be read as text
ReadableTargets == {f \in scan_targets(include) : f.decodable}

PathLiteralErrors == SelectSeq(errors, LAMBDA d : d.msg = AbsoluteLiteral(<<>>, 0).msg)

\* C16: once the path-literal scan has run over the descriptor and the text-like files
\* reachable from the include entries (or from the fallback directories when include is
\* empty), every line of every target has exactly one error, citing the file's path and
\* the 1-based line number, if it holds a POSIX absolute path under a system prefix or a
\* Windows drive-letter path, however many, and none if it holds only relative paths;
\* no other path-literal error is collected.
PathLiteralsReportedPerLine ==
    "paths" \in ran =>
        /\ \A f \in ReadableTargets : \A idx \in DOMAIN f.lines :
              Count(errors, AbsoluteLiteral(f.path, idx)) =
                  (IF LineHas(f.lines[idx], RootedPath_atoms) THEN 1 ELSE 0)
        /\ \A i \in DOMAIN PathLiteralErrors :
              \E f \in ReadableTargets : \E idx \in DOMAIN f.lines :
                  PathLiteralErrors[i] = AbsoluteLiteral(f.path, idx)

\* the manifest holds an object whose `include` is an array of strings
WellTypedManifest == bundle.payload.kind = "object" /\ IncludeWellTyped(bundle.payload)

\* C17: for every well-typed manifest, once the include rules have run: a runtime
\* directory (scripts, agents, or the reference directory under either of its names) that
\* exists on disk and is not in `include` has a warning and no error; a runtime directory
\* that is in `include` and does not exist on disk has an error.
RuntimeDirsMatchInclude ==
    ("include" \in ran /\ WellTypedManifest) =>
        LET items == Range(bundle.payload.items)
            layout == detect_reference_layout
        IN  /\ \A d \in {"scripts", "agents"} :
                  /\ (exists(<<d>>) /\ d \notin items) =>
                        /\ NotIncluded(<<d>>) \in Range(warnings)
                        /\ \A i \in DOMAIN errors : errors[i].arg # <<d>> /\ errors[i].extra # <<d>>
                  /\ (d \in items /\ ~exists(<<d>>)) => MissingDirectory(d) \in Range(errors)
            /\ ((layout.canonical \/ layout.legacy) /\ items \cap Range(REFERENCE_DIR_ALIASES) = {}) =>
                  /\ NotIncluded(REFERENCE_DIR_ALIASES) \in Range(warnings)
                  /\ \A i \in DOMAIN errors :
                        \A d \in Range(REFERENCE_DIR_ALIASES) : errors[i].arg # <<d>> /\ errors[i].extra # <<d>>
            /\ \A d \in Range(REFERENCE_DIR_ALIASES) :
                  (d \in items /\ ~exists(<<d>>)) => MissingDirectory(d) \in Range(errors)

====
